---- MODULE Spec2Model ----
(***************************************************************************)
(* Model of Sample/client_simulations.py: the HTTP helper call_request     *)
(* with its token cache, the three status pollers, the fetch of the        *)
(* results of the simulation and of its predictions, the creation loops of *)
(* antennas, map data and propagation models with their validation         *)
(* (sorting_json), the reading of the network file, the assembly of the    *)
(* propagation request from the network rows (base stations, AREA boxes),  *)
(* and the submission of the simulation request.                           *)
(***************************************************************************)
EXTENDS Integers, Sequences, FiniteSets, TLC

(* ------------------------------ bounds -------------------------------- *)

\* Largest number of status queries one poll loop issues in the model.
MaxPolls == 4

\* Largest number of entries of a resource list (antennas, map data, models).
MaxResources == 2

\* Largest number of rows of the network list.
MaxRows == 2

\* Largest number of token responses in a run: the server stops answering 403
\* once that many tokens were issued.
MaxTokens == 3

\* Size, in bytes, of an antenna file.
FileLen == 2

\* Largest number of result descriptors of a manifest.
MaxDescriptors == 2

(* ------------------------- program constants -------------------------- *)

\* download_simulation_results: i = 3
ManifestAttempts == 3

\* requests status codes the code compares against
HTTP_OK == 200
HTTP_CREATED == 201
HTTP_ACCEPTED == 202
HTTP_BAD_REQUEST == 400
HTTP_FORBIDDEN == 403
HTTP_NOT_FOUND == 404
HTTP_NOT_ACCEPTABLE == 406

\* None
None == 0

\* SIMULATION_UUID = uuid.uuid4(): among the identifiers of the model it is
\* "client", the one the client generated; "server" is any other one.
SIMULATION_UUID == "client"

(* ------------------------------ state --------------------------------- *)

VARIABLES
    entry,          \* the function the process runs: see Entries
    auth,           \* authentication_data: "none" (None), "notRequired", "required"
    pc,             \* position of the single thread of control
    retry,          \* local variable retry of the post-processing / prediction-group poller
    observed,       \* the responses call_request returned to the poll loop, as labels
    nQueries,       \* number of call_request invocations on the status endpoint
    manifestLeft,   \* local variable i of download_simulation_results
    ACCESS_TOKEN,   \* global ACCESS_TOKEN (None or the number of the token response it came from)
    REFRESH_TOKEN,  \* global REFRESH_TOKEN (same encoding)
    tokenIssued,    \* number of 200 responses the token endpoint has given
    crPc,           \* position inside call_request: "idle", "start", "refresh", "return"
    crRetry,        \* parameter retry of call_request
    crReq,          \* the arguments of the outermost call_request invocation
    crSent,         \* the requests put on the wire by this call_request, in order
    crGot,          \* the responses received by this call_request, in order
    crRes,          \* the response call_request returns
    crRefreshes,    \* number of refresh_token calls made by this call_request
    requested,      \* the endpoints a request has been sent to so far
    resource_list,  \* the list the entry function is given: antenna_list, mapdata_list, model_list
    listIdx,        \* index of the entry the loop over resource_list is at (1-based)
    filePos,        \* read position of the open antenna_file / vxf_file object
    antenna_dict,   \* name -> uuid mapping built by create_antennas
    mapdata_dict,   \* name -> uuid mapping built by create_mapdatas, read by create_model
    model_dict,     \* name -> uuid mapping built by create_model
    result_get,     \* local variable result_get of create_mapdatas
    warnings,       \* number of logger.warning calls made so far
    lastCreation,   \* the last answer to a creation POST that a resource loop has read
    network_list,   \* the rows of the network file, as create_propagation_request gets them
    prediction_type, \* settings["predictionSettings"]["type"], "none" when the key is absent
    propagation_list, \* local variable propagation_list of create_propagation_request
    results,        \* local variable results of the two download functions (a parsed body)
    resultIdx,      \* index of the descriptor the loop over results is at (1-based)
    prediction_list, \* local variable prediction_list of the prediction-level fetch
    predictionIdx,  \* index of the prediction the loop over prediction_list is at (1-based)
    fetchLog,       \* what the fetch has done so far: queries answered, directories, files
    csv_file,       \* the network file create_network_list reads: its headers and its rows
    computation_type, \* settings["network"]["computationType"], "" when the key is absent
    shiftGridCenter, \* settings["predictionSettings"]["shiftGridCenter"] is True
    publicPrediction, \* authentication_data["publicPrediction"], FALSE without authentication_data
    network_section, \* settings["network"]: "absent", "complete", or "incomplete" (a key is missing)
    simulation_request \* local variable simulation_request of create_simulation_request

vars == <<entry, auth, pc, retry, observed, nQueries, manifestLeft,
          ACCESS_TOKEN, REFRESH_TOKEN, tokenIssued,
          crPc, crRetry, crReq, crSent, crGot, crRes, crRefreshes, requested,
          resource_list, listIdx, filePos, antenna_dict, mapdata_dict, model_dict,
          result_get, warnings, lastCreation,
          network_list, prediction_type, propagation_list,
          results, resultIdx, prediction_list, predictionIdx, fetchLog,
          csv_file, computation_type, shiftGridCenter,
          publicPrediction, network_section, simulation_request>>

pollVars == <<retry, observed, nQueries>>
tokenVars == <<ACCESS_TOKEN, REFRESH_TOKEN, tokenIssued>>
crVars == <<crPc, crRetry, crReq, crSent, crGot, crRes, crRefreshes>>
antennaVars == <<resource_list, listIdx, filePos, antenna_dict>>
resourceVars == <<mapdata_dict, model_dict, result_get, warnings, lastCreation>>
requestVars == <<network_list, prediction_type, propagation_list>>
fetchVars == <<results, resultIdx, prediction_list, predictionIdx, fetchLog>>
inputVars == <<csv_file, computation_type, shiftGridCenter, publicPrediction, network_section>>
\* The settings, and the request create_simulation_request builds from them.
settingsVars == <<inputVars, simulation_request>>

(* ------------------------------ domains ------------------------------- *)

\* The network sections of the settings: none; one with resolution,
\* computationType and computationResultType; one that lacks one of them.
NetworkSections == {"absent", "complete", "incomplete"}

\* simulation_request before create_simulation_request has built it.
NoSimulationRequest == [propagationRequest |-> FALSE, postprocessingRequest |-> FALSE]

Entries ==
    {"simulation", "predictiongroup", "postprocessing", "antennas", "mapdatas", "models"}

Pollers == {"simulation", "predictiongroup", "postprocessing"}

AuthModes == {"none", "notRequired", "required"}

\* The job states of the status response, and "OTHER" for any other string.
JobStates == {"WAITING", "DONE", "DONE_WITH_ERROR", "ERROR", "CANCELED", "OTHER"}

\* A response body.  kind "nojson": res.json() raises.  kind "status": a JSON
\* object with the keys progress and state, and error / errorMessages when the
\* flags say so.  kind "object": a JSON object with none of these keys, with
\* the key uuid when uuid # "none".  kind "list": a JSON list of len entries.
\* An object has the key status when status # None, and the key layers when
\* layers # "none": "same" when they equal the layers of the payload the client
\* holds, "other" when they differ.  items are the entries of a list of result
\* descriptors or of predictions; len is len() of the parsed body.
Body(kind, state, error, errorMessages, uuid, len) ==
    [kind |-> kind, state |-> state, error |-> error,
     errorMessages |-> errorMessages, uuid |-> uuid, len |-> len,
     status |-> None, layers |-> "none", items |-> <<>>]

NoJsonBody == Body("nojson", "none", FALSE, FALSE, "none", 0)

StatusBodies ==
    {Body("status", s, e, m, "none", 0) : s \in JobStates, e \in BOOLEAN, m \in BOOLEAN}

ObjectBodies == {Body("object", "none", FALSE, FALSE, u, 0) : u \in {"none", "client", "server"}}

ListBodies == {Body("list", "none", FALSE, FALSE, "none", n) : n \in 0..2}

NoResponse == [code |-> None, body |-> NoJsonBody]

ErrorObject == Body("object", "none", FALSE, FALSE, "none", 0)

\* A JSON object the map data and propagation model endpoints answer with.
ResourceBody(uuid, status, layers) ==
    [Body("object", "none", FALSE, FALSE, uuid, 0) EXCEPT !.status = status, !.layers = layers]

\* The answers to the creation POST of a map data or of a propagation model:
\* the code reads the body only, where a status key, when there is one,
\* repeats the HTTP status.
CreationResponses ==
    UNION {[code : {c}, body : {NoJsonBody} \cup
                               {ResourceBody(u, st, "none") :
                                   u \in {"none", "server"}, st \in {None, c}}] :
           c \in {HTTP_CREATED, HTTP_ACCEPTED, HTTP_NOT_ACCEPTABLE, HTTP_BAD_REQUEST}}

\* A result descriptor of a manifest: fileName as its components between
\* "/" ("cells/a.tif" is <<"cells", "a.tif">>), and the uuid of the artifact.
Descriptors ==
    {[fileName |-> <<"a.tif">>, uuid |-> "r1"],
     [fileName |-> <<"cells", "a.tif">>, uuid |-> "r2"]}

\* The steps of a simulation document: a step carries the identifier of its
\* prediction group ("none": the step has no such field).
StepLists ==
    {<<>>, <<[predictionGroupUuid |-> "none"]>>, <<[predictionGroupUuid |-> "g1"]>>,
     <<[predictionGroupUuid |-> "none"], [predictionGroupUuid |-> "g1"]>>,
     <<[predictionGroupUuid |-> "g1"], [predictionGroupUuid |-> "g2"]>>,
     <<[predictionGroupUuid |-> "g2"], [predictionGroupUuid |-> "none"]>>}

\* A JSON list of result descriptors.
ManifestList(items) ==
    [Body("list", "none", FALSE, FALSE, "none", Len(items)) EXCEPT !.items = items]

\* A JSON object of n keys, none of them read by the fetch but those of an
\* error message.
ObjectOfLen(n) == [ErrorObject EXCEPT !.len = n]

\* What a manifest query may be answered with: no JSON, an object ({} or an
\* error object), a list of zero to MaxDescriptors descriptors.  In the main
\* sequence, where the model stops once the fetch has its manifest: no JSON,
\* the empty list, a list of one descriptor.
ManifestBodies ==
    IF entry = "simulation"
    THEN {NoJsonBody} \cup
         {ManifestList(items) :
             items \in {<<>>, <<[fileName |-> <<"a.tif">>, uuid |-> "r1"]>>}}
    ELSE {NoJsonBody, ObjectOfLen(0), ObjectOfLen(1)} \cup
         {ManifestList(items) :
             items \in UNION {[1..n -> Descriptors] : n \in 0..MaxDescriptors}}

\* The answers to the creation POST of a session: a body that is not JSON,
\* or an object without a "status" key or with the status of the answer.
SessionResponses ==
    UNION {[code : {c}, body : {NoJsonBody} \cup
                               {ResourceBody("none", st, "none") : st \in {None, c}}] :
           c \in {HTTP_CREATED, HTTP_NOT_ACCEPTABLE, HTTP_BAD_REQUEST}}

\* What the server may answer to a request, by endpoint.  A 403 carries no
\* document of the endpoint: its body is an error object or is not JSON.
Responses(url) ==
    [code : {HTTP_FORBIDDEN}, body : {NoJsonBody, ErrorObject}] \cup
    CASE url = "status" ->
            [code : {HTTP_OK, HTTP_NOT_FOUND},
             body : StatusBodies \cup {NoJsonBody, ErrorObject}]
      [] url = "results" ->
            [code : {HTTP_OK, HTTP_BAD_REQUEST, HTTP_NOT_FOUND}, body : ManifestBodies]
      [] url = "download" ->
            [code : {HTTP_OK, HTTP_NOT_FOUND}, body : {NoJsonBody}]
      [] url = "predictions/uuid/results" ->
            [code : {HTTP_OK, HTTP_BAD_REQUEST, HTTP_NOT_FOUND}, body : ManifestBodies]
      [] url = "simulations/uuid" ->
            [code : {HTTP_OK, HTTP_NOT_FOUND},
             body : {NoJsonBody, ManifestList(<<>>)}
                    \cup {[ErrorObject EXCEPT !.items = steps] : steps \in StepLists}]
      [] url = "predictions" ->
            [code : {HTTP_OK, HTTP_NOT_FOUND},
             body : ListBodies \cup {NoJsonBody}]
      [] url = "mapdata/uuid" ->
            [code : {HTTP_OK, HTTP_NOT_FOUND},
             body : {NoJsonBody} \cup
                    {ResourceBody("none", None, l) : l \in {"none", "same", "other"}}]
      [] url \in {"mapdata", "propagationmodels", "mapdata/public",
                  "propagationmodels/public"} -> CreationResponses
      [] url \in {"sessions", "sessions/public"} -> SessionResponses
      [] url \in {"simulations", "simulations/public"} ->
            [code : {HTTP_OK, HTTP_CREATED, HTTP_BAD_REQUEST},
             body : ObjectBodies \cup {NoJsonBody}]
      [] OTHER ->
            [code : {HTTP_CREATED, HTTP_ACCEPTED, HTTP_BAD_REQUEST},
             body : ObjectBodies \cup {NoJsonBody}]

NoRequest ==
    [method |-> "none", url |-> "none", fileObject |-> FALSE, params |-> FALSE,
     uuid |-> "none"]

NoData == [offset |-> 0, length |-> 0]

\* No network file: the run starts after create_network_list.
NoFile == [fieldnames |-> FALSE, headers |-> {}, rows |-> <<>>]

\* Positions at which the model stops: the entry function has returned, the
\* process has ended (sys.exit, or an exception nothing catches), or the result
\* fetch has its manifest and goes on to the downloads.
Terminal == {"returned", "exit", "crash", "downloads"}

(* ------------------------- JSON values, sorting_json ------------------- *)

\* A JSON value as Python holds it: an int, a str, a list, a dict (its items
\* in insertion order); a tuple is what sorting_json builds for a dict item.
JInt(n) == [t |-> "int", v |-> n]

JStr(s) == [t |-> "str", v |-> s]

JList(s) == [t |-> "list", v |-> s]

JTuple(s) == [t |-> "tuple", v |-> s]

JDict(items) == [t |-> "dict", v |-> items]

\* The strings of the model in Python's order of str (by code point).
StrOrder ==
    <<"f.vxf", "gains", "mapdataName", "n1", "n2", "name", "tilt", "type", "volcano",
      "vxfFilePath">>

StrRank(s) == CHOOSE i \in 1..Len(StrOrder) : StrOrder[i] = s

\* Python's a < b on two values of one type: numbers by value, strings by
\* code point, lists and tuples lexicographically.
RECURSIVE PyLess(_, _)
PyLess(a, b) ==
    CASE a.t = "int" -> a.v < b.v
      [] a.t = "str" -> StrRank(a.v) < StrRank(b.v)
      [] OTHER ->
           \/ \E i \in 1..Len(a.v) :
                 /\ i <= Len(b.v)
                 /\ \A j \in 1..(i - 1) : a.v[j] = b.v[j]
                 /\ a.v[i] # b.v[i]
                 /\ PyLess(a.v[i], b.v[i])
           \/ /\ Len(a.v) < Len(b.v)
              /\ \A j \in 1..Len(a.v) : a.v[j] = b.v[j]

\* sorted(s): the elements of s in ascending order, equal elements in their
\* order of arrival.
RECURSIVE sorted(_)
sorted(s) ==
    IF s = <<>> THEN <<>>
    ELSE LET x == s[Len(s)]
             head == sorted(SubSeq(s, 1, Len(s) - 1))
             k == Cardinality({i \in 1..Len(head) : ~PyLess(x, head[i])})
         IN  SubSeq(head, 1, k) \o <<x>> \o SubSeq(head, k + 1, Len(head))

\* Mutant of sorting_json: the elements of a list are left in their order.
RECURSIVE sorting_json_KeysOnly(_)
sorting_json_KeysOnly(item) ==
    CASE item.t = "dict" ->
           JList(sorted([i \in 1..Len(item.v) |->
                           JTuple(<<JStr(item.v[i][1]), sorting_json_KeysOnly(item.v[i][2])>>)]))
      [] OTHER -> item

\* sorting_json, lines 243-255: a dict becomes the sorted list of its
\* (key, sorted value) tuples, a list the sorted list of its sorted elements,
\* any other value is returned as it is.
RECURSIVE sorting_json(_)
sorting_json(item) ==
    CASE item.t = "dict" ->
           JList(sorted([i \in 1..Len(item.v) |->
                           JTuple(<<JStr(item.v[i][1]), sorting_json(item.v[i][2])>>)]))
      [] item.t = "list" ->
           JList(sorted([i \in 1..Len(item.v) |-> sorting_json(item.v[i])]))
      [] OTHER -> item

\* d[key] and key in d, for a dict d.
HasKey(d, key) == \E i \in 1..Len(d.v) : d.v[i][1] = key

GetItem(d, key) == d.v[CHOOSE i \in 1..Len(d.v) : d.v[i][1] = key][2]

(* ------------------- call_request and the token cache ------------------ *)

\* Mutant of get_resource_uri: the suffix is put whenever the job is marked
\* publicPrediction.
get_resource_uri_AlwaysPublic(resource_type) ==
    IF publicPrediction THEN resource_type \o "/public" ELSE resource_type

\* get_resource_uri, lines 1041-1054, without the server prefix.
get_resource_uri(resource_type) ==
    IF auth = "none" \/ auth # "required"
    THEN resource_type
    ELSE IF publicPrediction THEN resource_type \o "/public" ELSE resource_type

\* The request requests.<method>() puts on the wire for the arguments req of
\* call_request: url, files, json, params, timeout as passed, the
\* Authorization header built from token, and, for a multipart part that is
\* an open file object, the bytes from its read position to its end.
WireRequest(req, token, pos) ==
    [method |-> req.method, url |-> req.url, uuid |-> req.uuid, json |-> None,
     params |-> req.params,
     timeout |-> None, token |-> token,
     data |-> IF req.fileObject THEN [offset |-> pos, length |-> FileLen - pos] ELSE NoData]

\* call_request line 1629: the headers carry a token only when authentication
\* is required.
AuthRequired == auth = "required"

\* The caller's call of call_request(method, url, ..., files, params): retry
\* defaults to 0.
CallRequest(req) ==
    /\ crPc' = "start"
    /\ crRetry' = 0
    /\ crReq' = req
    /\ crSent' = <<>>
    /\ crGot' = <<>>
    /\ crRes' = NoResponse
    /\ crRefreshes' = 0

\* The caller has taken the value call_request returned (crRes): the frame of
\* call_request is gone.
Returned ==
    /\ crPc' = "idle"
    /\ crRetry' = 0
    /\ crReq' = NoRequest
    /\ crSent' = <<>>
    /\ crGot' = <<>>
    /\ crRes' = NoResponse
    /\ crRefreshes' = 0

\* Mutant of get_access_token: the 200 branch assigns ACCESS_TOKEN only.
get_access_token_AccessOnly ==
    /\ crPc = "start"
    /\ pc \notin Terminal
    /\ AuthRequired
    /\ ACCESS_TOKEN = None
    /\ \E ok \in BOOLEAN :
          IF ok
          THEN /\ ACCESS_TOKEN' = tokenIssued + 1
               /\ REFRESH_TOKEN' = REFRESH_TOKEN
               /\ tokenIssued' = tokenIssued + 1
               /\ pc' = pc
          ELSE /\ pc' = "exit"
               /\ UNCHANGED tokenVars
    /\ UNCHANGED <<entry, auth, settingsVars, fetchVars, requestVars, resourceVars, requested, pollVars, manifestLeft,
                   crVars, antennaVars>>

\* Mutant of get_access_token: the cached token is not looked at, every
\* authenticated call may ask for a token with the password.
get_access_token_EveryCall ==
    /\ crPc = "start"
    /\ pc \notin Terminal
    /\ AuthRequired
    /\ tokenIssued < MaxTokens
    /\ \E ok \in BOOLEAN :
          IF ok
          THEN /\ ACCESS_TOKEN' = tokenIssued + 1
               /\ REFRESH_TOKEN' = tokenIssued + 1
               /\ tokenIssued' = tokenIssued + 1
               /\ pc' = pc
          ELSE /\ pc' = "exit"
               /\ UNCHANGED tokenVars
    /\ UNCHANGED <<entry, auth, settingsVars, fetchVars, requestVars, resourceVars, requested,
                   pollVars, manifestLeft, crVars, antennaVars>>

\* get_access_token when ACCESS_TOKEN is None: the password grant.  A 200
\* response sets both globals from the response; any other status exits.
get_access_token ==
    /\ crPc = "start"
    /\ pc \notin Terminal
    /\ AuthRequired
    /\ ACCESS_TOKEN = None
    /\ \E ok \in BOOLEAN :
          IF ok
          THEN /\ ACCESS_TOKEN' = tokenIssued + 1
               /\ REFRESH_TOKEN' = tokenIssued + 1
               /\ tokenIssued' = tokenIssued + 1
               /\ pc' = pc
          ELSE /\ pc' = "exit"
               /\ UNCHANGED tokenVars
    /\ UNCHANGED <<entry, auth, settingsVars, fetchVars, requestVars, resourceVars, requested, pollVars, manifestLeft,
                   crVars, antennaVars>>

\* The token of the Authorization header: get_access_token returns the cached
\* ACCESS_TOKEN; no header (None) when authentication is not required.
HeaderToken == IF AuthRequired THEN ACCESS_TOKEN ELSE None

\* Mutant of ShouldRefresh: the retry count is not looked at.
ShouldRefresh_AnyAttempt(res, retryArg) == res.code = HTTP_FORBIDDEN

\* Mutant of ShouldRefresh: a 400 on the first attempt is retried as well.
ShouldRefresh_AlsoBadRequest(res, retryArg) ==
    res.code \in {HTTP_FORBIDDEN, HTTP_BAD_REQUEST} /\ retryArg = 0

\* call_request line 1651: res.status_code == 403 and retry == 0.
ShouldRefresh(res, retryArg) == res.code = HTTP_FORBIDDEN /\ retryArg = 0

\* call_request lines 1633-1651 and 1656: send the request, receive the
\* response; a 403 on the first attempt goes on to refresh_token, every other
\* response is returned.  Every caller passes GET, POST or DELETE, so the
\* branch for an unknown method (lines 1646-1648) is never taken.
call_request_send ==
    /\ crPc = "start"
    /\ pc \notin Terminal
    /\ AuthRequired => ACCESS_TOKEN # None
    /\ \E res \in Responses(crReq.url) :
          /\ res.code = HTTP_FORBIDDEN => tokenIssued < MaxTokens
          /\ crSent' = Append(crSent, WireRequest(crReq, HeaderToken, filePos))
          /\ crGot' = Append(crGot, res)
          /\ requested' = requested \cup {crReq.url}
          /\ filePos' = IF crReq.fileObject THEN FileLen ELSE filePos
          /\ IF ShouldRefresh(res, crRetry)
             THEN /\ crPc' = "refresh"
                  /\ crRes' = crRes
             ELSE /\ crPc' = "return"
                  /\ crRes' = res
    /\ UNCHANGED <<entry, auth, settingsVars, fetchVars, requestVars, resourceVars, pc, pollVars, manifestLeft, tokenVars,
                   crRetry, crReq, crRefreshes, resource_list, listIdx, antenna_dict>>

\* Mutant of refresh_token: without a refresh token the 403 is given back to
\* the caller.
refresh_token_ReturnForbidden ==
    /\ crPc = "refresh"
    /\ pc \notin Terminal
    /\ crRefreshes' = crRefreshes + 1
    /\ IF REFRESH_TOKEN = None
       THEN /\ crPc' = "return"
            /\ crRes' = crGot[Len(crGot)]
            /\ UNCHANGED <<tokenVars, pc, crRetry>>
       ELSE \E ok \in BOOLEAN :
              IF ok
              THEN /\ ACCESS_TOKEN' = tokenIssued + 1
                   /\ REFRESH_TOKEN' = tokenIssued + 1
                   /\ tokenIssued' = tokenIssued + 1
                   /\ crRetry' = 1
                   /\ crPc' = "start"
                   /\ UNCHANGED <<pc, crRes>>
              ELSE /\ pc' = "exit"
                   /\ UNCHANGED <<tokenVars, crPc, crRetry, crRes>>
    /\ UNCHANGED <<entry, auth, settingsVars, fetchVars, requestVars, resourceVars, requested,
                   pollVars, manifestLeft, crReq, crSent, crGot, antennaVars>>

\* refresh_token, called at line 1652, followed by the recursive call of
\* call_request with retry = 1 and the same arguments (lines 1653-1654).
refresh_token ==
    /\ crPc = "refresh"
    /\ pc \notin Terminal
    /\ crRefreshes' = crRefreshes + 1
    /\ IF REFRESH_TOKEN = None
       THEN /\ pc' = "exit"
            /\ UNCHANGED <<tokenVars, crPc, crRetry>>
       ELSE \E ok \in BOOLEAN :
              IF ok
              THEN /\ ACCESS_TOKEN' = tokenIssued + 1
                   /\ REFRESH_TOKEN' = tokenIssued + 1
                   /\ tokenIssued' = tokenIssued + 1
                   /\ crRetry' = 1
                   /\ crPc' = "start"
                   /\ pc' = pc
              ELSE /\ pc' = "exit"
                   /\ UNCHANGED <<tokenVars, crPc, crRetry>>
    /\ UNCHANGED <<entry, auth, settingsVars, fetchVars, requestVars, resourceVars, requested, pollVars, manifestLeft,
                   crReq, crSent, crGot, crRes,
                   antennaVars>>

(* --------------------------- status pollers ---------------------------- *)

\* The label under which a response is remembered in observed.
Label(res) ==
    [notFound |-> res.code = HTTP_NOT_FOUND,
     state |-> IF res.body.kind = "status" THEN res.body.state ELSE res.body.kind]

\* Results of a response handler: the return codes "0" (done), "1" (waiting),
\* "2" (retry); "exit" for sys.exit(errno.EINVAL); "crash" for an exception
\* nothing catches (KeyError on a missing key); "errors" for the call of
\* get_predictions_errors, which ends the process itself.

\* Mutant of handle_pull_simulation_status_response: ERROR asks for a retry,
\* as in the two other handlers.
handle_pull_simulation_status_response_Retry(response) ==
    IF response.kind # "status" THEN "crash"
    ELSE CASE response.state = "ERROR" -> "2"
           [] response.state = "DONE" -> "0"
           [] response.state = "DONE_WITH_ERROR" ->
                 IF response.errorMessages THEN "0" ELSE "crash"
           [] response.state = "CANCELED" -> "exit"
           [] OTHER -> "1"

\* handle_pull_simulation_status_response
handle_pull_simulation_status_response(response) ==
    IF response.kind # "status" THEN "crash"                 \* response["progress"]
    ELSE CASE response.state = "WAITING" -> "1"
           [] response.state = "ERROR" ->
                 IF response.error /\ response.errorMessages THEN "exit" ELSE "crash"
           [] response.state = "DONE" -> "0"
           [] response.state = "DONE_WITH_ERROR" ->
                 IF response.errorMessages THEN "0" ELSE "crash"
           [] response.state = "CANCELED" -> "exit"
           [] OTHER -> "1"

\* Mutant of handle_pull_post_processing_status_response: CANCELED is retried
\* like ERROR.
handle_pull_post_processing_status_response_RetryCanceled(response, retryArg) ==
    IF response.kind # "status" THEN "crash"
    ELSE CASE response.state = "WAITING" -> "1"
           [] response.state \in {"ERROR", "CANCELED"} ->
                 IF response.state = "ERROR" /\ ~response.error THEN "crash"
                 ELSE IF retryArg THEN "2" ELSE "exit"
           [] response.state = "DONE" -> "0"
           [] OTHER -> "1"

\* Mutant of handle_pull_post_processing_status_response: a state the
\* handler does not know is handled as ERROR.
handle_pull_post_processing_status_response_UnknownIsError(response, retryArg) ==
    IF response.kind # "status" THEN "crash"
    ELSE CASE response.state = "WAITING" -> "1"
           [] response.state = "DONE" -> "0"
           [] response.state = "CANCELED" -> "exit"
           [] OTHER -> IF response.state = "ERROR" /\ ~response.error THEN "crash"
                       ELSE IF retryArg THEN "2" ELSE "exit"

\* handle_pull_post_processing_status_response
handle_pull_post_processing_status_response(response, retryArg) ==
    IF response.kind # "status" THEN "crash"                 \* response["progress"]
    ELSE CASE response.state = "WAITING" -> "1"
           [] response.state = "ERROR" ->
                 IF ~response.error THEN "crash"             \* response["error"]
                 ELSE IF retryArg THEN "2" ELSE "exit"
           [] response.state = "DONE" -> "0"
           [] response.state = "CANCELED" -> "exit"
           [] OTHER -> "1"

\* Mutant of handle_pull_prediction_group_status_response: the retry flag is
\* not looked at, the first ERROR is fatal.
handle_pull_prediction_group_status_response_NoRetry(response, retryArg) ==
    IF response.kind # "status" THEN "crash"
    ELSE CASE response.state = "WAITING" -> "1"
           [] response.state = "ERROR" -> "errors"
           [] response.state \in {"DONE", "DONE_WITH_ERROR"} -> "0"
           [] response.state = "CANCELED" -> "exit"
           [] OTHER -> "1"

\* handle_pull_prediction_group_status_response
handle_pull_prediction_group_status_response(response, retryArg) ==
    IF response.kind # "status" THEN "crash"                 \* response["progress"]
    ELSE CASE response.state = "WAITING" -> "1"
           [] response.state = "ERROR" -> IF retryArg THEN "2" ELSE "errors"
           [] response.state = "DONE" -> "0"
           [] response.state = "DONE_WITH_ERROR" -> "0"
           [] response.state = "CANCELED" -> "exit"
           [] OTHER -> "1"

\* GET <server><kind>/<uuid>/status: the uuid is the argument of the poller,
\* which is SIMULATION_UUID in the main sequence.
StatusRequest ==
    [method |-> "GET", url |-> "status", fileObject |-> FALSE, params |-> FALSE,
     uuid |-> IF entry = "simulation" THEN SIMULATION_UUID ELSE "given"]

\* Top of the while True loop of a poller: time.sleep(5), then the status
\* query through call_request.
PollQuery ==
    /\ pc = "poll"
    /\ nQueries < MaxPolls
    /\ nQueries' = nQueries + 1
    /\ CallRequest(StatusRequest)
    /\ pc' = "pollWait"
    /\ UNCHANGED <<entry, auth, settingsVars, fetchVars, requestVars, resourceVars, requested, retry, observed,
                   manifestLeft, tokenVars, antennaVars>>

\* Where control goes when a poller returns: the main sequence calls
\* download_simulation_results after pull_simulation_status (lines 1794-1800);
\* the two other pollers return to their caller.
AfterPoll(kind) == IF kind = "simulation" THEN "fetch" ELSE "returned"

\* The position after one evaluation of the loop body whose handler gave code.
PollNext(kind, code) ==
    CASE code = "0" -> AfterPoll(kind)
      [] code \in {"1", "2"} -> "poll"
      [] code = "errors" -> "predErrors"
      [] code = "exit" -> "exit"
      [] OTHER -> "crash"

\* Body of the loop of pull_simulation_status after call_request returned.
pull_simulation_status ==
    /\ pc = "pollWait"
    /\ crPc = "return"
    /\ entry = "simulation"
    /\ observed' = Append(observed, Label(crRes))
    /\ Returned
    /\ pc' = IF crRes.body.kind = "nojson" THEN "crash"      \* res.json()
             ELSE IF crRes.code # HTTP_NOT_FOUND
                  THEN PollNext(entry, handle_pull_simulation_status_response(crRes.body))
                  ELSE AfterPoll(entry)
    /\ UNCHANGED <<entry, auth, settingsVars, fetchVars, requestVars, resourceVars, requested, retry, nQueries,
                   manifestLeft, tokenVars, antennaVars>>

\* Body of the loop of pull_post_processing_status after call_request returned.
pull_post_processing_status ==
    /\ pc = "pollWait"
    /\ crPc = "return"
    /\ entry = "postprocessing"
    /\ observed' = Append(observed, Label(crRes))
    /\ Returned
    /\ LET code == IF crRes.body.kind = "nojson" THEN "crash"
                   ELSE IF crRes.code # HTTP_NOT_FOUND
                        THEN handle_pull_post_processing_status_response(crRes.body, retry)
                        ELSE "0"
       IN /\ pc' = PollNext(entry, code)
          /\ retry' = IF code = "2" THEN FALSE ELSE retry
    /\ UNCHANGED <<entry, auth, settingsVars, fetchVars, requestVars, resourceVars, requested, nQueries, manifestLeft,
                   tokenVars, antennaVars>>

\* Body of the loop of pull_prediction_group_status after call_request returned.
pull_prediction_group_status ==
    /\ pc = "pollWait"
    /\ crPc = "return"
    /\ entry = "predictiongroup"
    /\ observed' = Append(observed, Label(crRes))
    /\ Returned
    /\ LET code == IF crRes.body.kind = "nojson" THEN "crash"
                   ELSE IF crRes.code # HTTP_NOT_FOUND
                        THEN handle_pull_prediction_group_status_response(crRes.body, retry)
                        ELSE "0"
       IN /\ pc' = PollNext(entry, code)
          /\ retry' = IF code = "2" THEN FALSE ELSE retry
    /\ UNCHANGED <<entry, auth, settingsVars, fetchVars, requestVars, resourceVars, requested, nQueries, manifestLeft,
                   tokenVars, antennaVars>>

PredictionsRequest ==
    [method |-> "GET", url |-> "predictions", fileObject |-> FALSE, params |-> TRUE,
     uuid |-> "none"]

\* get_predictions_errors, lines 1299-1302: the query of the predictions of
\* the group.
get_predictions_errors_query ==
    /\ pc = "predErrors"
    /\ CallRequest(PredictionsRequest)
    /\ pc' = "predErrorsWait"
    /\ UNCHANGED <<entry, auth, settingsVars, fetchVars, requestVars, resourceVars, requested, pollVars, manifestLeft,
                   tokenVars, antennaVars>>

\* get_predictions_errors, lines 1303-1310: every path ends the process.
get_predictions_errors_result ==
    /\ pc = "predErrorsWait"
    /\ crPc = "return"
    /\ Returned
    /\ pc' = IF crRes.body.kind = "nojson" THEN "crash" ELSE "exit"
    /\ UNCHANGED <<entry, auth, settingsVars, fetchVars, requestVars, resourceVars, requested, pollVars, manifestLeft,
                   tokenVars, antennaVars>>

(* ----------------------------- result fetch ---------------------------- *)

\* An entry of fetchLog: a manifest query answered (op "manifest", with the
\* status and len() of the answer), a download answered (op "download", with
\* the status and the fileName), a directory made for a file name (op
\* "makedirs"), a file written (op "write"), create_directory called (op
\* "create_directory"), the error logged for a simulation without prediction
\* group (op "error").  prediction is the index of the prediction the
\* entry is about, 0 in the simulation-level fetch and for the root path.
Ev(op, prediction, code, len, name) ==
    [op |-> op, prediction |-> prediction, code |-> code, len |-> len, name |-> name]

\* get_error_message, lines 1730-1745: response.keys() raises on a list.
get_error_message(response) == IF response.kind = "list" THEN "raise" ELSE "message"

\* logger.error(..., get_error_message(results)); sys.exit(errno.EINVAL)
ExitWithMessage(response) ==
    IF get_error_message(response) = "raise" THEN "crash" ELSE "exit"

\* result["fileName"].rsplit("/", 1): the folder path ('' is <<>>) and the name.
rsplit(fileName) ==
    [folder_path |-> SubSeq(fileName, 1, Len(fileName) - 1), name |-> fileName[Len(fileName)]]

\* The directories made for file names so far, in the tree of prediction k.
MadeDirs(log, k) ==
    {log[i].name : i \in {j \in 1..Len(log) : log[j].op = "makedirs" /\ log[j].prediction = k}}

\* GET <server>simulations/<uuid>/results, called with SIMULATION_UUID.
ResultsRequest ==
    [method |-> "GET", url |-> "results", fileObject |-> FALSE, params |-> FALSE,
     uuid |-> SIMULATION_UUID]

\* GET <server>results/<uuid>/download
DownloadRequest(uuid) ==
    [method |-> "GET", url |-> "download", fileObject |-> FALSE, params |-> FALSE,
     uuid |-> uuid]

\* Where control goes when download_simulation_results has its manifest: the
\* model of the main sequence stops there, at "downloads".
AfterManifest == IF entry = "simulation" THEN "downloads" ELSE "create_directory"

\* download_simulation_results, lines 1000-1004: time.sleep(1), i = 3,
\* results = {}.
download_simulation_results ==
    /\ pc = "fetch"
    /\ manifestLeft' = ManifestAttempts
    /\ results' = ObjectOfLen(0)
    /\ pc' = "manifest"
    /\ UNCHANGED <<entry, auth, settingsVars, resultIdx, prediction_list, predictionIdx, fetchLog,
                   requestVars, resourceVars, requested, pollVars, tokenVars,
                   crVars, antennaVars>>

\* download_simulation_results, lines 1005-1007: the manifest query.
manifest_query ==
    /\ pc = "manifest"
    /\ manifestLeft > 0
    /\ CallRequest(ResultsRequest)
    /\ pc' = "manifestWait"
    /\ UNCHANGED <<entry, auth, settingsVars, fetchVars, requestVars, resourceVars, requested, pollVars,
                   manifestLeft, tokenVars, antennaVars>>

\* Mutant of manifest_result: a third empty manifest ends the run.
manifest_result_ExhaustionExits ==
    /\ pc = "manifestWait"
    /\ crPc = "return"
    /\ Returned
    /\ fetchLog' = Append(fetchLog, Ev("manifest", 0, crRes.code, crRes.body.len, <<>>))
    /\ IF crRes.body.kind = "nojson"
       THEN pc' = "crash" /\ UNCHANGED <<manifestLeft, results>>
       ELSE /\ results' = crRes.body
            /\ IF crRes.code \in {HTTP_NOT_FOUND, HTTP_BAD_REQUEST}
               THEN pc' = ExitWithMessage(crRes.body) /\ manifestLeft' = manifestLeft
               ELSE IF crRes.body.len > 0
               THEN pc' = AfterManifest /\ manifestLeft' = manifestLeft
               ELSE /\ manifestLeft' = manifestLeft - 1
                    /\ pc' = IF manifestLeft - 1 > 0 THEN "manifest" ELSE "exit"
    /\ UNCHANGED <<entry, auth, settingsVars, resultIdx, prediction_list, predictionIdx,
                   requestVars, resourceVars, requested, pollVars, tokenVars, antennaVars>>

\* Mutant of manifest_result: an empty manifest is not asked for again.
manifest_result_NoRetry ==
    /\ pc = "manifestWait"
    /\ crPc = "return"
    /\ Returned
    /\ fetchLog' = Append(fetchLog, Ev("manifest", 0, crRes.code, crRes.body.len, <<>>))
    /\ IF crRes.body.kind = "nojson"
       THEN pc' = "crash" /\ UNCHANGED <<manifestLeft, results>>
       ELSE /\ results' = crRes.body
            /\ manifestLeft' = manifestLeft
            /\ pc' = IF crRes.code \in {HTTP_NOT_FOUND, HTTP_BAD_REQUEST}
                     THEN ExitWithMessage(crRes.body)
                     ELSE AfterManifest
    /\ UNCHANGED <<entry, auth, settingsVars, resultIdx, prediction_list, predictionIdx,
                   requestVars, resourceVars, requested, pollVars, tokenVars, antennaVars>>

\* download_simulation_results, lines 1007-1014: results = res.json(); 404
\* and 400 exit; the loop ends on a non-empty manifest or when i reaches 0.
manifest_result ==
    /\ pc = "manifestWait"
    /\ crPc = "return"
    /\ Returned
    /\ fetchLog' = Append(fetchLog, Ev("manifest", 0, crRes.code, crRes.body.len, <<>>))
    /\ IF crRes.body.kind = "nojson"
       THEN pc' = "crash" /\ UNCHANGED <<manifestLeft, results>>
       ELSE /\ results' = crRes.body
            /\ IF crRes.code \in {HTTP_NOT_FOUND, HTTP_BAD_REQUEST}
               THEN pc' = ExitWithMessage(crRes.body) /\ manifestLeft' = manifestLeft
               ELSE IF crRes.body.len > 0
               THEN pc' = AfterManifest /\ manifestLeft' = manifestLeft
               ELSE /\ manifestLeft' = manifestLeft - 1
                    /\ pc' = IF manifestLeft - 1 > 0 THEN "manifest" ELSE AfterManifest
    /\ UNCHANGED <<entry, auth, settingsVars, resultIdx, prediction_list, predictionIdx,
                   requestVars, resourceVars, requested, pollVars, tokenVars, antennaVars>>

\* download_simulation_results, lines 1016-1019: create_directory(path), and
\* the start of the loop over results.
results_create_directory ==
    /\ pc = "create_directory"
    /\ fetchLog' = Append(fetchLog, Ev("create_directory", 0, None, 0, <<>>))
    /\ resultIdx' = 1
    /\ pc' = IF results.len > 0 THEN "results" ELSE "returned"
    /\ UNCHANGED <<entry, auth, settingsVars, results, prediction_list, predictionIdx,
                   requestVars, resourceVars, requested, pollVars, manifestLeft, tokenVars,
                   crVars, antennaVars>>

\* download_simulation_results, lines 1019-1031: the file name of the
\* descriptor is split and the artifact asked for.  Iterating an object
\* gives its keys, and result["fileName"] raises on a key.
download_query ==
    /\ pc = "results"
    /\ IF results.kind # "list"
       THEN pc' = "crash" /\ UNCHANGED crVars
       ELSE /\ CallRequest(DownloadRequest(results.items[resultIdx].uuid))
            /\ pc' = "downloadWait"
    /\ UNCHANGED <<entry, auth, settingsVars, fetchVars, requestVars, resourceVars, requested, pollVars,
                   manifestLeft, tokenVars, antennaVars>>

\* download_simulation_results, lines 1031-1038: a status other than 200
\* exits; else the folder of the file name is made when there is one and it
\* does not exist (the output path is new in each run), and the file written.
download_result ==
    /\ pc = "downloadWait"
    /\ crPc = "return"
    /\ Returned
    /\ LET result == results.items[resultIdx]
           split_name == rsplit(result.fileName)
           got == Append(fetchLog, Ev("download", 0, crRes.code, 0, result.fileName))
           made == IF split_name.folder_path # <<>>
                      /\ split_name.folder_path \notin MadeDirs(fetchLog, 0)
                   THEN Append(got, Ev("makedirs", 0, None, 0, split_name.folder_path))
                   ELSE got
       IN  IF crRes.code # HTTP_OK
           THEN /\ fetchLog' = got
                /\ pc' = "exit"
                /\ resultIdx' = resultIdx
           ELSE /\ fetchLog' = Append(made, Ev("write", 0, None, 0, result.fileName))
                /\ resultIdx' = resultIdx + 1
                /\ pc' = IF resultIdx + 1 <= results.len THEN "results" ELSE "returned"
    /\ UNCHANGED <<entry, auth, settingsVars, results, prediction_list, predictionIdx,
                   requestVars, resourceVars, requested, pollVars, manifestLeft, tokenVars,
                   antennaVars>>

(* ---------------------- prediction-level result fetch ------------------ *)

\* GET <server>simulations/<uuid>, called with SIMULATION_UUID.
SimulationGetRequest ==
    [method |-> "GET", url |-> "simulations/uuid", fileObject |-> FALSE, params |-> FALSE,
     uuid |-> SIMULATION_UUID]

\* Mutant of prediction_group_uuid: the last step that carries the field
\* wins.
prediction_group_uuid_Last(steps) ==
    LET with == {i \in 1..Len(steps) : steps[i].predictionGroupUuid # "none"}
    IN  IF with = {} THEN "none"
        ELSE steps[CHOOSE i \in with : \A j \in with : j <= i].predictionGroupUuid

\* download_simulation_predictions_results, lines 1245-1249: the
\* predictionGroupUuid of the first step that has one, "none" for None.
prediction_group_uuid(steps) ==
    LET with == {i \in 1..Len(steps) : steps[i].predictionGroupUuid # "none"}
    IN  IF with = {} THEN "none"
        ELSE steps[CHOOSE i \in with : \A j \in with : i <= j].predictionGroupUuid

\* GET <server>predictions with params {"groupid": prediction_group_uuid}.
GroupPredictionsRequest(group) == [PredictionsRequest EXCEPT !.uuid = group]

\* GET <server>predictions/<uuid>/results, for the prediction at index k.
PredictionResultsRequest(k) ==
    [method |-> "GET", url |-> "predictions/uuid/results", fileObject |-> FALSE,
     params |-> FALSE, uuid |-> "prediction"]

\* The position after the prediction at predictionIdx is done.
NextPrediction ==
    IF predictionIdx + 1 <= prediction_list.len THEN "prediction" ELSE "returned"

\* download_simulation_predictions_results, lines 1232-1238:
\* create_directory(path), then the query of the simulation.
download_simulation_predictions_results ==
    /\ pc = "predictions_results"
    /\ fetchLog' = Append(fetchLog, Ev("create_directory", 0, None, 0, <<>>))
    /\ CallRequest(SimulationGetRequest)
    /\ pc' = "simulationWait"
    /\ UNCHANGED <<entry, auth, settingsVars, results, resultIdx, prediction_list, predictionIdx,
                   requestVars, resourceVars, requested, pollVars, manifestLeft, tokenVars,
                   antennaVars>>

\* download_simulation_predictions_results, lines 1238-1249: results =
\* res.json(); 404 and 400 exit; results.get("steps", []) raises on a list; a
\* simulation without a prediction group is logged and the run goes on.
simulation_result ==
    /\ pc = "simulationWait"
    /\ crPc = "return"
    /\ Returned
    /\ IF crRes.body.kind = "nojson"
       THEN pc' = "crash" /\ UNCHANGED <<results, fetchLog>>
       ELSE /\ results' = crRes.body
            /\ pc' = IF crRes.code \in {HTTP_NOT_FOUND, HTTP_BAD_REQUEST}
                     THEN ExitWithMessage(crRes.body)
                     ELSE IF crRes.body.kind = "list" THEN "crash"
                     ELSE "predictions"
            /\ fetchLog' = IF /\ crRes.code \notin {HTTP_NOT_FOUND, HTTP_BAD_REQUEST}
                              /\ crRes.body.kind # "list"
                              /\ prediction_group_uuid(crRes.body.items) = "none"
                           THEN Append(fetchLog, Ev("error", 0, None, 0, <<>>))
                           ELSE fetchLog
    /\ UNCHANGED <<entry, auth, settingsVars, resultIdx, prediction_list, predictionIdx,
                   requestVars, resourceVars, requested, pollVars, manifestLeft, tokenVars,
                   antennaVars>>

\* download_simulation_predictions_results, lines 1251-1253: the query of
\* the predictions of the group.
predictions_query ==
    /\ pc = "predictions"
    /\ CallRequest(GroupPredictionsRequest(prediction_group_uuid(results.items)))
    /\ pc' = "predictionsWait"
    /\ UNCHANGED <<entry, auth, settingsVars, fetchVars, requestVars, resourceVars, requested, pollVars,
                   manifestLeft, tokenVars, antennaVars>>

\* download_simulation_predictions_results, lines 1254-1261: prediction_list
\* = res.json(); 404 and 400 exit with the message of results (an object);
\* time.sleep(1) and the start of the loop over prediction_list.  Iterating
\* an object gives its keys, and prediction['uuid'] raises on a key.
predictions_result ==
    /\ pc = "predictionsWait"
    /\ crPc = "return"
    /\ Returned
    /\ predictionIdx' = 1
    /\ IF crRes.body.kind = "nojson"
       THEN pc' = "crash" /\ UNCHANGED prediction_list
       ELSE /\ prediction_list' = crRes.body
            /\ pc' = IF crRes.code \in {HTTP_NOT_FOUND, HTTP_BAD_REQUEST}
                     THEN ExitWithMessage(results)
                     ELSE IF crRes.body.len = 0 THEN "returned"
                     ELSE IF crRes.body.kind # "list" THEN "crash"
                     ELSE "prediction"
    /\ UNCHANGED <<entry, auth, settingsVars, results, resultIdx, fetchLog,
                   requestVars, resourceVars, requested, pollVars, manifestLeft, tokenVars,
                   antennaVars>>

\* download_simulation_predictions_results, lines 1261-1263: i = 3,
\* results = {}.
prediction_start ==
    /\ pc = "prediction"
    /\ manifestLeft' = ManifestAttempts
    /\ results' = ObjectOfLen(0)
    /\ pc' = "predictionManifest"
    /\ UNCHANGED <<entry, auth, settingsVars, resultIdx, prediction_list, predictionIdx, fetchLog,
                   requestVars, resourceVars, requested, pollVars, tokenVars,
                   crVars, antennaVars>>

\* download_simulation_predictions_results, lines 1264-1266: the manifest
\* query of the prediction.
prediction_manifest_query ==
    /\ pc = "predictionManifest"
    /\ manifestLeft > 0
    /\ CallRequest(PredictionResultsRequest(predictionIdx))
    /\ pc' = "predictionManifestWait"
    /\ UNCHANGED <<entry, auth, settingsVars, fetchVars, requestVars, resourceVars, requested, pollVars,
                   manifestLeft, tokenVars, antennaVars>>

\* download_simulation_predictions_results, lines 1266-1273: results =
\* res.json(); the loop ends on a non-empty results, whatever the status;
\* else 404 and 400 exit; else i = i - 1.
prediction_manifest_result ==
    /\ pc = "predictionManifestWait"
    /\ crPc = "return"
    /\ Returned
    /\ fetchLog' = Append(fetchLog,
                          Ev("manifest", predictionIdx, crRes.code, crRes.body.len, <<>>))
    /\ IF crRes.body.kind = "nojson"
       THEN pc' = "crash" /\ UNCHANGED <<manifestLeft, results>>
       ELSE /\ results' = crRes.body
            /\ IF crRes.body.len > 0
               THEN pc' = "predictionDirectory" /\ manifestLeft' = manifestLeft
               ELSE IF crRes.code \in {HTTP_NOT_FOUND, HTTP_BAD_REQUEST}
               THEN pc' = ExitWithMessage(crRes.body) /\ manifestLeft' = manifestLeft
               ELSE /\ manifestLeft' = manifestLeft - 1
                    /\ pc' = IF manifestLeft - 1 > 0 THEN "predictionManifest"
                             ELSE "predictionDirectory"
    /\ UNCHANGED <<entry, auth, settingsVars, resultIdx, prediction_list, predictionIdx,
                   requestVars, resourceVars, requested, pollVars, tokenVars, antennaVars>>

\* download_simulation_predictions_results, lines 1274-1277:
\* create_directory(pred_path), and the start of the loop over results.
prediction_create_directory ==
    /\ pc = "predictionDirectory"
    /\ fetchLog' = Append(fetchLog, Ev("create_directory", predictionIdx, None, 0, <<>>))
    /\ resultIdx' = 1
    /\ IF results.len > 0
       THEN pc' = "predictionResults" /\ predictionIdx' = predictionIdx
       ELSE pc' = NextPrediction /\ predictionIdx' = predictionIdx + 1
    /\ UNCHANGED <<entry, auth, settingsVars, results, prediction_list,
                   requestVars, resourceVars, requested, pollVars, manifestLeft, tokenVars,
                   crVars, antennaVars>>

\* download_simulation_predictions_results, lines 1277-1281: the artifact of
\* the descriptor is asked for; result["fileName"] raises on a key of an
\* object.
prediction_download_query ==
    /\ pc = "predictionResults"
    /\ IF results.kind # "list"
       THEN pc' = "crash" /\ UNCHANGED crVars
       ELSE /\ CallRequest(DownloadRequest(results.items[resultIdx].uuid))
            /\ pc' = "predictionDownloadWait"
    /\ UNCHANGED <<entry, auth, settingsVars, fetchVars, requestVars, resourceVars, requested, pollVars,
                   manifestLeft, tokenVars, antennaVars>>

\* download_simulation_predictions_results, lines 1282-1287: a status other
\* than 200 exits; else the file is opened at pred_path + name, which raises
\* when name has a folder (no folder is made under pred_path), and written.
prediction_download_result ==
    /\ pc = "predictionDownloadWait"
    /\ crPc = "return"
    /\ Returned
    /\ LET result == results.items[resultIdx]
           got == Append(fetchLog,
                         Ev("download", predictionIdx, crRes.code, 0, result.fileName))
           last == resultIdx + 1 > results.len
       IN  IF crRes.code # HTTP_OK
           THEN /\ fetchLog' = got
                /\ pc' = "exit"
                /\ UNCHANGED <<resultIdx, predictionIdx>>
           ELSE IF rsplit(result.fileName).folder_path # <<>>
           THEN /\ fetchLog' = got
                /\ pc' = "crash"
                /\ UNCHANGED <<resultIdx, predictionIdx>>
           ELSE /\ fetchLog' = Append(got, Ev("write", predictionIdx, None, 0, result.fileName))
                /\ resultIdx' = resultIdx + 1
                /\ predictionIdx' = IF last THEN predictionIdx + 1 ELSE predictionIdx
                /\ pc' = IF last THEN NextPrediction ELSE "predictionResults"
    /\ UNCHANGED <<entry, auth, settingsVars, results, prediction_list,
                   requestVars, resourceVars, requested, pollVars, manifestLeft, tokenVars,
                   antennaVars>>

(* --------------------------- resource lists ---------------------------- *)

\* NAME = "name"
NAME == "name"

Gains(a, b) == <<"gains", JList(<<JInt(a), JInt(b)>>)>>

Tilt == <<"tilt", JInt(1)>>

VxfFilePath == <<"vxfFilePath", JStr("f.vxf")>>

Type == <<"type", JStr("volcano")>>

\* The entries of an antenna or map data list: three definitions named n1,
\* the second being the first with its keys and its list in another order,
\* the third differing from both in its list; one definition named n2.
ResourceEntries ==
    {JDict(<<<<NAME, JStr("n1")>>, Tilt, Gains(1, 2)>>),
     JDict(<<Gains(2, 1), Tilt, <<NAME, JStr("n1")>>>>),
     JDict(<<<<NAME, JStr("n1")>>, Tilt, Gains(1, 1)>>),
     JDict(<<<<NAME, JStr("n2")>>, Tilt, Gains(1, 2)>>)}

\* The entries of a model list: with a vxf file, the same in another order,
\* with a type and a map data name, with both a file and a type, with
\* neither; one definition named n2.
ModelEntries ==
    {JDict(<<<<NAME, JStr("n1")>>, VxfFilePath, Gains(1, 2)>>),
     JDict(<<Gains(2, 1), VxfFilePath, <<NAME, JStr("n1")>>>>),
     JDict(<<<<NAME, JStr("n1")>>, Type, Gains(1, 1), <<"mapdataName", JStr("n1")>>>>),
     JDict(<<<<NAME, JStr("n1")>>, VxfFilePath, Type>>),
     JDict(<<<<NAME, JStr("n1")>>>>),
     JDict(<<<<NAME, JStr("n2")>>, Type>>)}

\* What is remembered of the answer to a creation POST: its HTTP status, the
\* status field of its body (None when the body has none) and its uuid.
CreationLabel(res) == [code |-> res.code, status |-> res.body.status, uuid |-> res.body.uuid]

\* The lists of one to MaxResources entries taken from S.
ListsOf(S) == UNION {[1..n -> S] : n \in 1..MaxResources}

\* antenna[NAME], mapdata[NAME], model[NAME]
EntryName(e) == GetItem(e, NAME).v

\* A name -> uuid dict is the set of its (name, uuid) items;
\* d[k] = v replaces the item of key k.
SetItem(d, k, v) == {p \in d : p[1] # k} \cup {<<k, v>>}

\* Mutant of get_resource_uuid_from_cache: a name that is not in the cache
\* gets a fresh identifier.
get_resource_uuid_from_cache_Fresh(resource_cache, resource_name) ==
    IF \E p \in resource_cache : p[1] = resource_name
    THEN (CHOOSE p \in resource_cache : p[1] = resource_name)[2]
    ELSE "client"

\* get_resource_uuid_from_cache, lines 309-323: resource_cache.get(name), and
\* sys.exit ("exit") when it gives None.
get_resource_uuid_from_cache(resource_cache, resource_name) ==
    IF \E p \in resource_cache : p[1] = resource_name
    THEN (CHOOSE p \in resource_cache : p[1] = resource_name)[2]
    ELSE "exit"

\* The loop of validate_antennas from entry i on, antenna_validated being
\* the dict built so far (a function from names to sorted entries).
RECURSIVE ValidateFrom(_, _, _)
ValidateFrom(list, i, validated) ==
    IF i > Len(list) THEN "ok"
    ELSE LET n == EntryName(list[i])
         IN  IF n \in DOMAIN validated /\ validated[n] # sorting_json(list[i])
             THEN "exit"
             ELSE ValidateFrom(list, i + 1,
                               [k \in DOMAIN validated \cup {n} |->
                                   IF k = n THEN sorting_json(list[i]) ELSE validated[k]])

\* validate_antennas, lines 364-378.
validate_antennas(antenna_list) == ValidateFrom(antenna_list, 1, <<>>)

\* validate_mapdatas, lines 571-585: the same loop.
validate_mapdatas(mapdata_list) == ValidateFrom(mapdata_list, 1, <<>>)

\* The position after the entry at listIdx is done.
NextEntry(loop) == IF listIdx + 1 <= Len(resource_list) THEN loop ELSE "returned"

(* --------------------------- antenna creation -------------------------- *)

AntennaRequest ==
    [method |-> "POST", url |-> get_resource_uri("antennas"), fileObject |-> TRUE, params |-> FALSE,
     uuid |-> "none"]

\* create_antennas, lines 336-340: validate_antennas before the loop.
create_antennas ==
    /\ pc = "create_antennas"
    /\ pc' = IF validate_antennas(resource_list) = "exit" THEN "exit" ELSE "antennas"
    /\ UNCHANGED <<entry, auth, settingsVars, fetchVars, requestVars, resourceVars, requested, pollVars, manifestLeft,
                   tokenVars,
                   crVars, antennaVars>>

\* create_antennas, lines 342-351: the entry gets a generated uuid, its file
\* is opened (read position 0) and posted as a multipart part.
create_antennas_post ==
    /\ pc = "antennas"
    /\ listIdx <= Len(resource_list)
    /\ filePos' = 0
    /\ CallRequest(AntennaRequest)
    /\ pc' = "antennaWait"
    /\ UNCHANGED <<entry, auth, settingsVars, fetchVars, requestVars, resourceVars, requested, pollVars, manifestLeft,
                   tokenVars,
                   resource_list, listIdx, antenna_dict>>

\* create_antennas, lines 352-361: 201 and 202 map the name to the uuid of
\* the response, 202 with a warning; any other status exits.
create_antennas_result ==
    /\ pc = "antennaWait"
    /\ crPc = "return"
    /\ Returned
    /\ lastCreation' = CreationLabel(crRes)
    /\ IF crRes.body.kind = "nojson"
       THEN pc' = "crash" /\ UNCHANGED <<listIdx, antenna_dict, warnings>>
       ELSE IF crRes.code \notin {HTTP_CREATED, HTTP_ACCEPTED}
       THEN pc' = "exit" /\ UNCHANGED <<listIdx, antenna_dict, warnings>>
       ELSE /\ warnings' = IF crRes.code = HTTP_ACCEPTED THEN warnings + 1 ELSE warnings
            /\ IF crRes.body.uuid = "none"
               THEN pc' = "crash" /\ UNCHANGED <<listIdx, antenna_dict>>
               ELSE /\ antenna_dict' = SetItem(antenna_dict, EntryName(resource_list[listIdx]),
                                               crRes.body.uuid)
                    /\ listIdx' = listIdx + 1
                    /\ pc' = NextEntry("antennas")
    /\ UNCHANGED <<entry, auth, settingsVars, fetchVars, requestVars, mapdata_dict, model_dict, result_get, requested,
                   pollVars,
                   manifestLeft, tokenVars, resource_list, filePos>>

(* --------------------------- map data creation ------------------------ *)

MapdataGetRequest ==
    [method |-> "GET", url |-> "mapdata/uuid", fileObject |-> FALSE, params |-> FALSE,
     uuid |-> "none"]

MapdataPostRequest ==
    [method |-> "POST", url |-> get_resource_uri("mapdata"), fileObject |-> FALSE, params |-> FALSE,
     uuid |-> "none"]

\* Mutant of handle_create_mapdata_result: every status other than 201 exits.
handle_create_mapdata_result_Strict(resultGet, resultPost) ==
    IF resultPost.status # None /\ resultPost.status # HTTP_CREATED THEN "exit" ELSE "ok"

\* Mutant of handle_create_mapdata_result: the layers are compared whatever
\* the result of the POST.
handle_create_mapdata_result_AlwaysCompare(resultGet, resultPost) ==
    IF resultGet.layers = "other" THEN "exit"
    ELSE IF resultPost.status \notin {None, HTTP_CREATED, HTTP_NOT_ACCEPTABLE} THEN "exit"
    ELSE "ok"

\* handle_create_mapdata_result, lines 597-612: "exit" for sys.exit, "ok"
\* when the function returns.
handle_create_mapdata_result(resultGet, resultPost) ==
    IF resultPost.status # None /\ resultPost.status # HTTP_CREATED
    THEN IF resultGet.layers = "other" THEN "exit"
         ELSE IF resultPost.status # HTTP_NOT_ACCEPTABLE THEN "exit"
         ELSE "ok"
    ELSE "ok"

\* create_mapdatas, lines 547-553: validate_mapdatas before the loop.
create_mapdatas ==
    /\ pc = "create_mapdatas"
    /\ pc' = IF validate_mapdatas(resource_list) = "exit" THEN "exit" ELSE "mapdatas"
    /\ UNCHANGED <<entry, auth, settingsVars, fetchVars, requestVars, resourceVars, requested, pollVars, manifestLeft,
                   tokenVars,
                   crVars, antennaVars>>

\* create_mapdatas, lines 554-559: the entry gets a generated uuid, and the
\* map data of that uuid is asked for.
create_mapdatas_get ==
    /\ pc = "mapdatas"
    /\ listIdx <= Len(resource_list)
    /\ CallRequest(MapdataGetRequest)
    /\ pc' = "mapdataGetWait"
    /\ UNCHANGED <<entry, auth, settingsVars, fetchVars, requestVars, resourceVars, requested, pollVars, manifestLeft,
                   tokenVars,
                   antennaVars>>

\* create_mapdatas, lines 560-565: result_get = res.json(), a warning on 200,
\* then the creation POST.
create_mapdatas_post ==
    /\ pc = "mapdataGetWait"
    /\ crPc = "return"
    /\ IF crRes.body.kind = "nojson"
       THEN /\ pc' = "crash"
            /\ Returned
            /\ UNCHANGED <<result_get, warnings>>
       ELSE /\ result_get' = crRes.body
            /\ warnings' = IF crRes.code = HTTP_OK THEN warnings + 1 ELSE warnings
            /\ CallRequest(MapdataPostRequest)
            /\ pc' = "mapdataPostWait"
    /\ UNCHANGED <<entry, auth, settingsVars, fetchVars, requestVars, mapdata_dict, model_dict, lastCreation, requested,
                   pollVars,
                   manifestLeft, tokenVars, antennaVars>>

\* create_mapdatas, lines 565-567: result_post is the JSON of the answer,
\* whatever its HTTP status; handle_create_mapdata_result, then the name is
\* mapped to result_post["uuid"].  result_get is dead after the iteration.
create_mapdatas_result ==
    /\ pc = "mapdataPostWait"
    /\ crPc = "return"
    /\ Returned
    /\ lastCreation' = CreationLabel(crRes)
    /\ result_get' = NoJsonBody
    /\ IF crRes.body.kind = "nojson"
       THEN pc' = "crash" /\ UNCHANGED <<listIdx, mapdata_dict>>
       ELSE IF handle_create_mapdata_result(result_get, crRes.body) = "exit"
       THEN pc' = "exit" /\ UNCHANGED <<listIdx, mapdata_dict>>
       ELSE IF crRes.body.uuid = "none"
       THEN pc' = "crash" /\ UNCHANGED <<listIdx, mapdata_dict>>
       ELSE /\ mapdata_dict' = SetItem(mapdata_dict, EntryName(resource_list[listIdx]),
                                       crRes.body.uuid)
            /\ listIdx' = listIdx + 1
            /\ pc' = NextEntry("mapdatas")
    /\ UNCHANGED <<entry, auth, settingsVars, fetchVars, requestVars, model_dict, warnings, requested, pollVars,
                   manifestLeft,
                   tokenVars, resource_list, filePos, antenna_dict>>

(* --------------------------- model creation ---------------------------- *)

ModelFileRequest ==
    [method |-> "POST", url |-> get_resource_uri("propagationmodels"), fileObject |-> TRUE, params |-> FALSE,
     uuid |-> "none"]

ModelJsonRequest ==
    [method |-> "POST", url |-> get_resource_uri("propagationmodels"), fileObject |-> FALSE, params |-> FALSE,
     uuid |-> "none"]

\* create_model, lines 652-658, for a result that is not None: "exit" for
\* sys.exit, "crash" for the KeyError of result["uuid"], "ok" otherwise.
ModelOutcome(result) ==
    IF result.status # None /\ result.status # HTTP_NOT_ACCEPTABLE THEN "exit"
    ELSE IF result.uuid = "none" THEN "crash"
    ELSE "ok"

\* The end of one iteration of create_model on the last result received.
ModelDone(result) ==
    IF ModelOutcome(result) = "ok"
    THEN /\ model_dict' = SetItem(model_dict, EntryName(resource_list[listIdx]), result.uuid)
         /\ listIdx' = listIdx + 1
         /\ pc' = NextEntry("models")
    ELSE /\ pc' = ModelOutcome(result)
         /\ UNCHANGED <<listIdx, model_dict>>

\* create_model, lines 627-651 up to the first request: the map data of the
\* model is looked up in mapdata_dict; the model is posted with its vxf file
\* when it has one, else as JSON when it has a type, else the run ends.
create_model_post ==
    /\ pc = "models"
    /\ listIdx <= Len(resource_list)
    /\ LET model == resource_list[listIdx]
       IN  IF /\ HasKey(model, "mapdataName")
              /\ get_resource_uuid_from_cache(mapdata_dict,
                                              GetItem(model, "mapdataName").v) = "exit"
           THEN pc' = "exit" /\ UNCHANGED <<crVars, filePos>>
           ELSE IF HasKey(model, "vxfFilePath")
           THEN /\ filePos' = 0
                /\ CallRequest(ModelFileRequest)
                /\ pc' = "modelFileWait"
           ELSE IF HasKey(model, "type")
           THEN /\ CallRequest(ModelJsonRequest)
                /\ pc' = "modelWait"
                /\ UNCHANGED filePos
           ELSE pc' = "exit" /\ UNCHANGED <<crVars, filePos>>
    /\ UNCHANGED <<entry, auth, settingsVars, fetchVars, requestVars, resourceVars, requested, pollVars, manifestLeft,
                   tokenVars,
                   resource_list, listIdx, antenna_dict>>

\* create_model, lines 645-651: the JSON of the answer to the multipart
\* POST; a model that also has a type is posted again as JSON, and the
\* result of the first POST is dropped.
create_model_file_result ==
    /\ pc = "modelFileWait"
    /\ crPc = "return"
    /\ lastCreation' = CreationLabel(crRes)
    /\ IF crRes.body.kind = "nojson"
       THEN pc' = "crash" /\ Returned /\ UNCHANGED <<listIdx, model_dict>>
       ELSE IF HasKey(resource_list[listIdx], "type")
       THEN /\ CallRequest(ModelJsonRequest)
            /\ pc' = "modelWait"
            /\ UNCHANGED <<listIdx, model_dict>>
       ELSE Returned /\ ModelDone(crRes.body)
    /\ UNCHANGED <<entry, auth, settingsVars, fetchVars, requestVars, mapdata_dict, result_get, warnings, requested,
                   pollVars,
                   manifestLeft, tokenVars, resource_list, filePos, antenna_dict>>

\* create_model, lines 649-658: the JSON of the answer to the JSON POST.
create_model_result ==
    /\ pc = "modelWait"
    /\ crPc = "return"
    /\ Returned
    /\ lastCreation' = CreationLabel(crRes)
    /\ IF crRes.body.kind = "nojson"
       THEN pc' = "crash" /\ UNCHANGED <<listIdx, model_dict>>
       ELSE ModelDone(crRes.body)
    /\ UNCHANGED <<entry, auth, settingsVars, fetchVars, requestVars, mapdata_dict, result_get, warnings, requested,
                   pollVars,
                   manifestLeft, tokenVars, resource_list, filePos, antenna_dict>>

(* ---------------------- propagation request assembly ------------------- *)

\* The values of NetworkFields the model reads by name.
TRANSMITTER_EASTING == "transmitter easting"
TRANSMITTER_NORTHING == "transmitter northing"
TRANSMITTER_LONGITUDE == "transmitter longitude"
TRANSMITTER_LATITUDE == "transmitter latitude"
EPRE_OFFSET_SS_VS_RS == "epre offset ss vs rs"
EPRE_OFFSET_PBCH_VS_RS == "epre offset pbch vs rs"
EPRE_OFFSET_PDCCH_VS_RS == "epre offset pdcch vs rs"
EPRE_OFFSET_PDSCH_VS_RS == "epre offset pdsch vs rs"
NB_ANTENNA_PORTS == "number antenna ports"
TECHNO == "techno"
ANTENNA_CSI == "antenna CSI"
ANTENNA_SSB == "antenna SSB"
TERRAIN_ALTITUDE == "terrain altitude"

SINR5G == "5G"
SINR4G == "4G"

\* A row of the network list, by the columns the assembly reads: transmitter
\* id and name, easting, northing, height, azimuth, downtilt, frequency,
\* emitting power, comments, antenna ("none": empty), propagation model,
\* and whether calculation resolution and radius are filled in (area).
\* keys are the optional columns of the row that are filled in, among the
\* coordinate, techno, SINR and antenna SSB / CSI columns; longitude,
\* latitude, techno, antennaSsb, antennaCsi are their values (x and y those
\* of easting and northing), read only when the key is there.  Numbers are
\* in tenths of the unit of the file (metre, degree).  terrainAltitude is the
\* cell of the terrain altitude: <<>> for the empty string, <<v>> for v.
BaseRow ==
    [id |-> 1, name |-> "bs1", x |-> 1, y |-> 1, height |-> 1, azimuth |-> 1, downtilt |-> 1,
     frequency |-> 1, power |-> 1, comments |-> "c1", antenna |-> "none", model |-> "n1",
     area |-> TRUE,
     keys |-> {TRANSMITTER_EASTING, TRANSMITTER_NORTHING},
     longitude |-> 0, latitude |-> 0, techno |-> SINR4G,
     antennaSsb |-> "n1", antennaCsi |-> "n1", radius |-> 10, resolution |-> 4,
     terrainAltitude |-> <<>>]

\* The rows of the model: BaseRow, and the rows that differ from it in one
\* column.
NetworkRows ==
    {BaseRow,
     [BaseRow EXCEPT !.id = 2], [BaseRow EXCEPT !.name = "bs2"],
     [BaseRow EXCEPT !.x = 2], [BaseRow EXCEPT !.y = 2], [BaseRow EXCEPT !.height = 2],
     [BaseRow EXCEPT !.azimuth = 2], [BaseRow EXCEPT !.downtilt = 2],
     [BaseRow EXCEPT !.frequency = 2], [BaseRow EXCEPT !.power = 2],
     [BaseRow EXCEPT !.comments = "c2"],
     [BaseRow EXCEPT !.antenna = "n1"], [BaseRow EXCEPT !.antenna = "n2"],
     [BaseRow EXCEPT !.model = "n2"],
     [BaseRow EXCEPT !.area = FALSE]}

PredictionTypes == {"none", "AREA", "POINT"}

\* Mutant of get_prediction_type: the type key is not read.
get_prediction_type_Default(predictionType) == "AREA"

\* get_prediction_type, lines 198-207: "AREA" unless the settings have a type.
get_prediction_type(predictionType) ==
    IF predictionType # "none" THEN predictionType ELSE "AREA"

\* fill_base_station, lines 498-502: mandatory_advanced_sinr_fields.
mandatory_advanced_sinr_fields ==
    {EPRE_OFFSET_SS_VS_RS, EPRE_OFFSET_PBCH_VS_RS, EPRE_OFFSET_PDCCH_VS_RS,
     EPRE_OFFSET_PDSCH_VS_RS, NB_ANTENNA_PORTS}

\* The keys fill_base_station gives the base station for these five fields.
AdvancedSinrAttributes ==
    {"epreOffsetSSVSRS", "epreOffsetPBCHVSRS", "epreOffsetPDCCHVSRS", "epreOffsetPDSCHVSRS",
     "nbAntennaPorts"}

\* Lines 452-453 and 1348-1349: transmitter_long_lat_coordinate.
transmitter_long_lat_coordinate(network) ==
    TRANSMITTER_LONGITUDE \in network.keys /\ TRANSMITTER_LATITUDE \in network.keys

\* Mutant of all_or_none: some of the five fields are taken as none.
all_or_none_Lenient(found) == TRUE

\* fill_base_station, lines 503-523: all(found) or not any(found); the run
\* ends otherwise.
all_or_none(found) == found = mandatory_advanced_sinr_fields \/ found = {}

\* Mutant of BaseStationZ: the terrain altitude is not read.
BaseStationZ_Ground(network) == [z |-> network.height, zmeaning |-> "ZMEANING_GROUND"]

\* fill_base_station, lines 459-461 and 476-480: z and zmeaning.
BaseStationZ(network) ==
    IF TERRAIN_ALTITUDE \in network.keys /\ network.terrainAltitude # <<>>
    THEN [z |-> network.height + network.terrainAltitude[1],
          zmeaning |-> "ZMEANING_ALTITUDE"]
    ELSE [z |-> network.height, zmeaning |-> "ZMEANING_GROUND"]

\* fill_base_station, lines 452-534.  [exit |-> TRUE] when the run ends in
\* it: get_from_dict on a column the row has not (a coordinate, techno,
\* antenna SSB or CSI), an antenna name that is in no mapping, some but not
\* all of the five SINR fields in a 4G computation, the repeater test.
\* attributes are the keys of the base station beyond those every base
\* station has.
fill_base_station(network, computationType, antennaDict) ==
    LET long_lat == transmitter_long_lat_coordinate(network)
        sinr == computationType \in {SINR5G, SINR4G}
        found == mandatory_advanced_sinr_fields \cap network.keys
        Lookup(name) == get_resource_uuid_from_cache(antennaDict, name)
        attributes ==
            (IF network.antenna # "none" THEN {"antennaUuid"} ELSE {}) \cup
            (IF sinr THEN {"techno", "trafficload"} ELSE {}) \cup
            (IF computationType = SINR5G THEN {"antennaSsbUuid", "antennaCsiUuid"} ELSE {}) \cup
            (IF computationType = SINR4G /\ found = mandatory_advanced_sinr_fields
             THEN AdvancedSinrAttributes ELSE {})
        techno == IF sinr THEN network.techno ELSE "none"
    IN  IF \/ ~long_lat /\ ~({TRANSMITTER_EASTING, TRANSMITTER_NORTHING} \subseteq network.keys)
           \/ network.antenna # "none" /\ Lookup(network.antenna) = "exit"
           \/ sinr /\ TECHNO \notin network.keys
           \/ /\ computationType = SINR5G
              /\ \/ ANTENNA_SSB \notin network.keys
                 \/ ANTENNA_CSI \notin network.keys
                 \/ Lookup(network.antennaSsb) = "exit"
                 \/ Lookup(network.antennaCsi) = "exit"
           \/ computationType = SINR4G /\ ~all_or_none(found)
           \/ /\ sinr
              /\ "techno" \in attributes /\ techno = SINR5G
              /\ "repeatBaseStationNetworkId" \in attributes
        THEN [exit |-> TRUE]
        ELSE [exit |-> FALSE,
              networkId |-> network.id, name |-> network.name,
              x |-> IF long_lat THEN network.longitude ELSE network.x,
              y |-> IF long_lat THEN network.latitude ELSE network.y,
              z |-> BaseStationZ(network).z,
              zmeaning |-> BaseStationZ(network).zmeaning,
              epsgCode |-> IF long_lat THEN 4326 ELSE None,
              azimuth |-> network.azimuth, downtilt |-> network.downtilt,
              carrierFrequency |-> network.frequency, transmitPower |-> network.power,
              description |-> network.comments,
              antennaUuid |-> IF network.antenna = "none" THEN "none"
                              ELSE Lookup(network.antenna),
              techno |-> techno,
              attributes |-> attributes]

\* a / b rounded toward zero, for b # 0.
Div(a, b) ==
    LET q == (IF a < 0 THEN -a ELSE a) \div (IF b < 0 THEN -b ELSE b)
    IN  IF (a < 0) = (b < 0) THEN q ELSE -q

\* 1000 * math.cos(t * (math.pi / 180) / 10) for an angle of t tenths of a
\* degree, by Bhaskara's approximation of the cosine between -90 and 90
\* degrees and cos(t) = -cos(180 - t) beyond.  math.cos is not 0 at 90
\* degrees (6.1e-17): the smallest positive value stands for it.
cos1000(t) ==
    LET u == IF t < 0 THEN -t ELSE t
        v == u % 3600
        w == IF v > 1800 THEN 3600 - v ELSE v
        B(x) == (1000 * (810000 - x * x)) \div (810000 + ((x * x) \div 4))
        c == IF w <= 900 THEN B(w) ELSE -B(1800 - w)
    IN  IF c = 0 THEN 1 ELSE c

\* calculation_radius * m, lines 1421-1422: m is 8.983e-6 degree for a metre.
RadiusInDegrees(calculation_radius) == ((calculation_radius \div 1000) * 8983) \div 1000000

\* Mutant of GridCenter: the transmitter coordinate is rounded down to the
\* grid.
GridCenter_Floor(tx, resolution, shift) ==
    IF shift THEN resolution * (tx \div resolution) ELSE tx

\* fill_user_equipment, lines 1403-1418: tx_x_grid, tx_y_grid.
\* floor((tx + resolution / 2) / resolution) is floor((2 tx + resolution) /
\* (2 resolution)).
GridCenter(tx, resolution, shift) ==
    IF shift THEN resolution * ((2 * tx + resolution) \div (2 * resolution)) ELSE tx

\* fill_user_equipment, lines 1403-1445: the bounding box of an AREA
\* equipment.
AreaCoordinates(tx_x, tx_y, long_lat, calculation_radius, resolution, shift) ==
    LET tx_x_grid == GridCenter(tx_x, resolution, shift)
        tx_y_grid == GridCenter(tx_y, resolution, shift)
    IN  IF long_lat
        THEN LET lat_min == tx_y_grid - RadiusInDegrees(calculation_radius)
                 lat_max == tx_y_grid + RadiusInDegrees(calculation_radius)
                 long_min == tx_x_grid
                             - Div(RadiusInDegrees(calculation_radius) * 1000, cos1000(lat_min))
                 long_max == tx_x_grid
                             + Div(RadiusInDegrees(calculation_radius) * 1000, cos1000(lat_max))
             IN  [xmin |-> long_min, xmax |-> long_max, ymin |-> lat_min, ymax |-> lat_max,
                  resolution |-> resolution, epsgCode |-> 4326]
        ELSE [xmin |-> tx_x_grid - calculation_radius, xmax |-> tx_x_grid + calculation_radius,
              ymin |-> tx_y_grid - calculation_radius, ymax |-> tx_y_grid + calculation_radius,
              resolution |-> resolution, epsgCode |-> None]

\* fill_user_equipment, lines 1344-1447: POINT when the settings say POINT,
\* AREA otherwise; an AREA equipment needs resolution and radius, and the
\* coordinates of the transmitter.  The POINT fields of the row are taken as
\* filled in.
fill_user_equipment(network, predictionType, shift) ==
    LET long_lat == transmitter_long_lat_coordinate(network)
    IN  IF predictionType = "POINT"
        THEN [exit |-> FALSE, type |-> "POINT", description |-> network.comments]
        ELSE IF \/ ~network.area
                \/ ~long_lat
                   /\ ~({TRANSMITTER_EASTING, TRANSMITTER_NORTHING} \subseteq network.keys)
        THEN [exit |-> TRUE]
        ELSE [exit |-> FALSE, type |-> "AREA", description |-> network.comments,
              coordinates |->
                 AreaCoordinates(IF long_lat THEN network.longitude ELSE network.x,
                                 IF long_lat THEN network.latitude ELSE network.y,
                                 long_lat, network.radius, network.resolution, shift)]

\* Mutant of is_same_base_station: the transmit power is not compared.
is_same_base_station_NoPower(base_station_1, base_station_2) ==
    /\ base_station_1.networkId = base_station_2.networkId
    /\ base_station_1.name = base_station_2.name
    /\ base_station_1.x = base_station_2.x
    /\ base_station_1.y = base_station_2.y
    /\ base_station_1.z = base_station_2.z
    /\ base_station_1.azimuth = base_station_2.azimuth
    /\ base_station_1.downtilt = base_station_2.downtilt
    /\ base_station_1.carrierFrequency = base_station_2.carrierFrequency

\* is_same_base_station, lines 1475-1492.
is_same_base_station(base_station_1, base_station_2) ==
    /\ base_station_1.networkId = base_station_2.networkId
    /\ base_station_1.name = base_station_2.name
    /\ base_station_1.x = base_station_2.x
    /\ base_station_1.y = base_station_2.y
    /\ base_station_1.z = base_station_2.z
    /\ base_station_1.azimuth = base_station_2.azimuth
    /\ base_station_1.downtilt = base_station_2.downtilt
    /\ base_station_1.carrierFrequency = base_station_2.carrierFrequency
    /\ base_station_1.transmitPower = base_station_2.transmitPower

\* The scenarios of propagation_list whose base station is_same_base_station
\* finds equal to base_station.
SameStation(list, base_station) ==
    {i \in 1..Len(list) : is_same_base_station(list[i].baseStation, base_station)}

\* Where control goes when create_propagation_request has its list: the
\* submission when it runs inside create_simulation_request.
AfterAssembly == IF entry = "simulation" THEN "submit" ELSE "returned"

\* create_propagation_request, lines 1556-1559.
create_propagation_request ==
    /\ pc = "create_propagation_request"
    /\ pc' = IF get_prediction_type(prediction_type) = "POINT" THEN "exit" ELSE "rows"
    /\ UNCHANGED <<entry, auth, settingsVars, fetchVars, requestVars, resourceVars, requested, pollVars, manifestLeft,
                   tokenVars, crVars, antennaVars>>

\* Mutant of create_propagation_request_row: a new scenario is put at the
\* head of the list.
create_propagation_request_row_Prepend ==
    /\ pc = "rows"
    /\ listIdx <= Len(network_list)
    /\ LET network == network_list[listIdx]
           new_base_station == fill_base_station(network, computation_type, antenna_dict)
           new_user_equipment == fill_user_equipment(network, prediction_type, shiftGridCenter)
           model_uuid == get_resource_uuid_from_cache(model_dict, network.model)
           same == SameStation(propagation_list, new_base_station)
       IN  IF new_base_station.exit \/ new_user_equipment.exit \/ model_uuid = "exit"
              \/ same # {}
           THEN pc' = "exit" /\ UNCHANGED <<listIdx, propagation_list>>
           ELSE /\ propagation_list' =
                      <<[baseStation |-> new_base_station,
                         userEquipments |-> <<new_user_equipment>>,
                         propagationModelUuid |-> model_uuid]>> \o propagation_list
                /\ listIdx' = listIdx + 1
                /\ pc' = IF listIdx + 1 <= Len(network_list) THEN "rows" ELSE AfterAssembly
    /\ UNCHANGED <<entry, auth, settingsVars, fetchVars, network_list, prediction_type, resourceVars, requested, pollVars,
                   manifestLeft, tokenVars, crVars, resource_list, filePos, antenna_dict>>

\* create_propagation_request, lines 1560-1597, one iteration: base station,
\* user equipment and model of the row; the first scenario with the same
\* base station takes a POINT equipment and ends the run for an AREA one; a
\* row with a new base station is a new scenario.
create_propagation_request_row ==
    /\ pc = "rows"
    /\ listIdx <= Len(network_list)
    /\ LET network == network_list[listIdx]
           new_base_station == fill_base_station(network, computation_type, antenna_dict)
           new_user_equipment == fill_user_equipment(network, prediction_type, shiftGridCenter)
           model_uuid == get_resource_uuid_from_cache(model_dict, network.model)
           same == SameStation(propagation_list, new_base_station)
           first == CHOOSE i \in same : \A j \in same : i <= j
       IN  IF new_base_station.exit \/ new_user_equipment.exit \/ model_uuid = "exit"
           THEN pc' = "exit" /\ UNCHANGED <<listIdx, propagation_list>>
           ELSE IF same # {} /\ new_user_equipment.type # "POINT"
           THEN pc' = "exit" /\ UNCHANGED <<listIdx, propagation_list>>
           ELSE /\ propagation_list' =
                      IF same # {}
                      THEN [propagation_list EXCEPT ![first].userEquipments =
                                                        Append(@, new_user_equipment)]
                      ELSE Append(propagation_list,
                                  [baseStation |-> new_base_station,
                                   userEquipments |-> <<new_user_equipment>>,
                                   propagationModelUuid |-> model_uuid])
                /\ listIdx' = listIdx + 1
                /\ pc' = IF listIdx + 1 <= Len(network_list) THEN "rows" ELSE AfterAssembly
    /\ UNCHANGED <<entry, auth, settingsVars, fetchVars, network_list, prediction_type, resourceVars, requested, pollVars,
                   manifestLeft, tokenVars, crVars, resource_list, filePos, antenna_dict>>

\* NetworkFields.list_mandatory(), line 723.
mandatory_headers ==
    {"transmitter id", "transmitter name", "transmitter height", "propagation model",
     "frequency"}

CoordinateHeaders ==
    {TRANSMITTER_EASTING, TRANSMITTER_NORTHING, TRANSMITTER_LONGITUDE, TRANSMITTER_LATITUDE}

\* The headers of the model that match a field of NetworkFields, line 707.
NetworkFieldsList ==
    mandatory_headers \cup CoordinateHeaders \cup mandatory_advanced_sinr_fields
    \cup {TECHNO, ANTENNA_CSI, ANTENNA_SSB, TERRAIN_ALTITUDE}

\* Mutant of coordinates_ok: any coordinate headers are accepted.
coordinates_ok_Any(valid_headers) == TRUE

\* create_network_list, lines 730-738: long_lat_coordinates ^
\* easting_northing_coordinates.
coordinates_ok(valid_headers) ==
    LET long_lat_coordinates ==
            /\ TRANSMITTER_LONGITUDE \in valid_headers
            /\ TRANSMITTER_LATITUDE \in valid_headers
            /\ TRANSMITTER_EASTING \notin valid_headers
            /\ TRANSMITTER_NORTHING \notin valid_headers
        easting_northing_coordinates ==
            /\ TRANSMITTER_EASTING \in valid_headers
            /\ TRANSMITTER_NORTHING \in valid_headers
            /\ TRANSMITTER_LONGITUDE \notin valid_headers
            /\ TRANSMITTER_LATITUDE \notin valid_headers
    IN  long_lat_coordinates # easting_northing_coordinates

\* Where control goes when create_network_list has returned: back to the
\* main sequence (line 1765) when that called it; the resource lists of
\* __main__ (lines 1768-1779) leave the network list alone, the assembly is
\* the next reader of it.
AfterNetworkList == IF entry = "network" THEN "returned" ELSE "create_propagation_request"

\* create_network_list, lines 693-762.  A file is its header line (fieldnames
\* FALSE: the file has none), and its rows: the values of a row and the
\* headers whose cell is filled in.  A row of the network list keeps the
\* filled cells only.  The run ends on a header no field matches, a missing
\* mandatory header, coordinate headers that are not one pair alone, an empty
\* mandatory cell; a file without header line leaves valid_headers unbound
\* at line 724.
create_network_list ==
    /\ pc = "create_network_list"
    /\ LET headers == csv_file.headers
           unknown_headers == headers \ NetworkFieldsList
           valid_headers == headers \cap NetworkFieldsList
           missing_headers == mandatory_headers \ valid_headers
           rows == csv_file.rows
           data(k) == [rows[k].data EXCEPT !.keys = (rows[k].filled \cap headers)
                                                    \ mandatory_headers]
       IN  IF ~csv_file.fieldnames
           THEN pc' = "crash" /\ UNCHANGED network_list
           ELSE IF \/ unknown_headers # {}
                   \/ missing_headers # {}
                   \/ ~coordinates_ok(valid_headers)
                   \/ \E k \in 1..Len(rows) : (mandatory_headers \cap headers) \ rows[k].filled # {}
           THEN pc' = "exit" /\ UNCHANGED network_list
           ELSE /\ network_list' = [k \in 1..Len(rows) |-> data(k)]
                /\ pc' = AfterNetworkList
    /\ UNCHANGED <<entry, auth, settingsVars, fetchVars, prediction_type, propagation_list,
                   resourceVars, requested, pollVars, manifestLeft, tokenVars, crVars,
                   antennaVars>>

\* The run of create_propagation_request alone, on every list of one to
\* MaxRows rows.
InitAssembly ==
    /\ entry = "create_propagation_request"
    /\ auth = "none"
    /\ pc = "create_propagation_request"
    /\ retry = TRUE
    /\ observed = <<>>
    /\ nQueries = 0
    /\ manifestLeft = 0
    /\ ACCESS_TOKEN = None
    /\ REFRESH_TOKEN = None
    /\ tokenIssued = 0
    /\ crPc = "idle"
    /\ crRetry = 0
    /\ crReq = NoRequest
    /\ crSent = <<>>
    /\ crGot = <<>>
    /\ crRes = NoResponse
    /\ crRefreshes = 0
    /\ requested = {}
    /\ resource_list = <<>>
    /\ listIdx = 1
    /\ filePos = 0
    /\ antenna_dict = {<<"n1", "server">>}
    /\ mapdata_dict = {}
    /\ model_dict = {<<"n1", "server">>}
    /\ result_get = NoJsonBody
    /\ warnings = 0
    /\ lastCreation = CreationLabel(NoResponse)
    /\ network_list \in UNION {[1..n -> NetworkRows] : n \in 1..MaxRows}
    /\ prediction_type \in PredictionTypes
    /\ propagation_list = <<>>
    /\ results = NoJsonBody
    /\ resultIdx = 1
    /\ prediction_list = NoJsonBody
    /\ predictionIdx = 1
    /\ fetchLog = <<>>
    /\ csv_file = NoFile
    /\ computation_type = ""
    /\ shiftGridCenter = FALSE
    /\ publicPrediction = FALSE
    /\ network_section = "absent"
    /\ simulation_request = NoSimulationRequest

NextAssembly ==
    \/ create_propagation_request
    \/ create_propagation_request_row

SpecAssembly == InitAssembly /\ [][NextAssembly]_vars

(* --------------------------- job submission ---------------------------- *)

\* POST <server>simulations with the request as a multipart part, and the
\* shapefile archive, an open file, as another part when the settings name one.
SimulationRequest(shapefile) ==
    [method |-> "POST", url |-> get_resource_uri("simulations"), fileObject |-> shapefile, params |-> FALSE,
     uuid |-> "none"]

\* Mutant of create_simulation_request_outcome: the status is not tested.
create_simulation_request_outcome_NoTest(res) ==
    IF res.body.kind = "nojson" THEN "crash"
    ELSE IF res.body.uuid = "none" THEN "crash"
    ELSE "poll"

\* create_simulation_request, lines 1536-1541: res.json(), sys.exit unless the
\* status is 200 or 201, then result["uuid"] is logged and the function
\* returns None; the main sequence goes on to pull_simulation_status.
create_simulation_request_outcome(res) ==
    IF res.body.kind = "nojson" THEN "crash"
    ELSE IF res.code \notin {HTTP_OK, HTTP_CREATED} THEN "exit"
    ELSE IF res.body.uuid = "none" THEN "crash"
    ELSE "poll"

\* Mutant of create_post_processing_request: a request is made whatever the
\* settings hold.
create_post_processing_request_Always(section, predictionType) ==
    [raises |-> FALSE, request |-> TRUE]

\* create_post_processing_request, lines 765-794: None without a network
\* section and for prediction type POINT; otherwise the request made from the
\* section, whose keys resolution, computationType and computationResultType
\* are subscripted (KeyError when one is missing).
create_post_processing_request(section, predictionType) ==
    IF section = "absent" THEN [raises |-> FALSE, request |-> FALSE]
    ELSE IF get_prediction_type(predictionType) = "POINT"
    THEN [raises |-> FALSE, request |-> FALSE]
    ELSE IF section = "incomplete" THEN [raises |-> TRUE, request |-> FALSE]
    ELSE [raises |-> FALSE, request |-> TRUE]

\* create_simulation_request, lines 1513-1535: the propagation request, a
\* dict and never None (lines 1593-1607), is put in simulation_request; the
\* post-processing request is put in when it is not None; the request is
\* posted.
create_simulation_request_post ==
    /\ pc = "submit"
    /\ LET postprocessing_request ==
               create_post_processing_request(network_section, prediction_type)
       IN  IF postprocessing_request.raises
           THEN /\ pc' = "crash"
                /\ simulation_request' = [propagationRequest |-> TRUE,
                                          postprocessingRequest |-> FALSE]
                /\ UNCHANGED <<crVars, filePos>>
           ELSE /\ simulation_request' =
                      [propagationRequest |-> TRUE,
                       postprocessingRequest |-> postprocessing_request.request]
                /\ \E shapefile \in BOOLEAN : CallRequest(SimulationRequest(shapefile))
                /\ filePos' = 0
                /\ pc' = "submitWait"
    /\ UNCHANGED <<entry, auth, inputVars, fetchVars, requestVars, resourceVars, requested, pollVars, manifestLeft,
                   tokenVars, resource_list, listIdx, antenna_dict>>

\* create_simulation_request, lines 1536-1541, and its return to the main
\* sequence (lines 1789-1794); the multipart list and its file are gone.
create_simulation_request_result ==
    /\ pc = "submitWait"
    /\ crPc = "return"
    /\ Returned
    /\ lastCreation' = CreationLabel(crRes)
    /\ filePos' = 0
    /\ pc' = create_simulation_request_outcome(crRes)
    /\ UNCHANGED <<entry, auth, settingsVars, fetchVars, requestVars, mapdata_dict, model_dict, result_get, warnings,
                   requested, pollVars, manifestLeft, tokenVars, resource_list, listIdx,
                   antenna_dict>>

\* The network lists of the main sequence in the model: one row; two rows
\* with the same base station; a row whose antenna, or whose propagation
\* model, is in no mapping.
SubmittedLists ==
    {<<BaseRow>>, <<BaseRow, BaseRow>>,
     <<[BaseRow EXCEPT !.antenna = "n2"]>>, <<[BaseRow EXCEPT !.model = "n2"]>>}

(* --------------------------- specification ----------------------------- *)

Init ==
    /\ entry \in Entries
    /\ auth \in AuthModes
    /\ pc = CASE entry = "antennas" -> "create_antennas"
              [] entry = "mapdatas" -> "create_mapdatas"
              [] entry = "models" -> "models"
              [] entry = "simulation" -> "create_propagation_request"
              [] OTHER -> "poll"
    /\ retry = TRUE
    /\ observed = <<>>
    /\ nQueries = 0
    /\ manifestLeft = 0
    /\ ACCESS_TOKEN = None
    /\ REFRESH_TOKEN = None
    /\ tokenIssued = 0
    /\ crPc = "idle"
    /\ crRetry = 0
    /\ crReq = NoRequest
    /\ crSent = <<>>
    /\ crGot = <<>>
    /\ crRes = NoResponse
    /\ crRefreshes = 0
    /\ requested = {}
    /\ resource_list \in CASE entry \in {"antennas", "mapdatas"} -> ListsOf(ResourceEntries)
                           [] entry = "models" -> ListsOf(ModelEntries)
                           [] OTHER -> {<<>>}
    /\ listIdx = 1
    /\ filePos = 0
    /\ antenna_dict = IF entry = "simulation" THEN {<<"n1", "server">>} ELSE {}
    /\ mapdata_dict \in IF entry = "models" THEN {{}, {<<"n1", "server">>}} ELSE {{}}
    /\ model_dict = IF entry = "simulation" THEN {<<"n1", "server">>} ELSE {}
    /\ result_get = NoJsonBody
    /\ warnings = 0
    /\ lastCreation = CreationLabel(NoResponse)
    /\ network_list \in IF entry = "simulation" THEN SubmittedLists ELSE {<<>>}
    /\ prediction_type \in IF entry = "simulation" THEN {"AREA", "POINT"} ELSE {"none"}
    /\ propagation_list = <<>>
    /\ results = NoJsonBody
    /\ resultIdx = 1
    /\ prediction_list = NoJsonBody
    /\ predictionIdx = 1
    /\ fetchLog = <<>>
    /\ csv_file = NoFile
    /\ computation_type = ""
    /\ shiftGridCenter = FALSE
    /\ publicPrediction = FALSE
    /\ network_section = "absent"
    /\ simulation_request = NoSimulationRequest

Next ==
    \/ get_access_token
    \/ call_request_send
    \/ refresh_token
    \/ PollQuery
    \/ pull_simulation_status
    \/ pull_post_processing_status
    \/ pull_prediction_group_status
    \/ get_predictions_errors_query
    \/ get_predictions_errors_result
    \/ download_simulation_results
    \/ manifest_query
    \/ manifest_result
    \/ create_antennas
    \/ create_antennas_post
    \/ create_antennas_result
    \/ create_mapdatas
    \/ create_mapdatas_get
    \/ create_mapdatas_post
    \/ create_mapdatas_result
    \/ create_model_post
    \/ create_model_file_result
    \/ create_model_result
    \/ create_propagation_request
    \/ create_propagation_request_row
    \/ create_simulation_request_post
    \/ create_simulation_request_result

Spec == Init /\ [][Next]_vars

\* The run of one of the two download functions alone.
FetchEntries == {"download_simulation_results", "download_simulation_predictions_results"}

InitFetch ==
    /\ entry \in FetchEntries
    /\ auth \in AuthModes
    /\ pc = IF entry = "download_simulation_results" THEN "fetch" ELSE "predictions_results"
    /\ retry = TRUE
    /\ observed = <<>>
    /\ nQueries = 0
    /\ manifestLeft = 0
    /\ ACCESS_TOKEN = None
    /\ REFRESH_TOKEN = None
    /\ tokenIssued = 0
    /\ crPc = "idle"
    /\ crRetry = 0
    /\ crReq = NoRequest
    /\ crSent = <<>>
    /\ crGot = <<>>
    /\ crRes = NoResponse
    /\ crRefreshes = 0
    /\ requested = {}
    /\ resource_list = <<>>
    /\ listIdx = 1
    /\ filePos = 0
    /\ antenna_dict = {}
    /\ mapdata_dict = {}
    /\ model_dict = {}
    /\ result_get = NoJsonBody
    /\ warnings = 0
    /\ lastCreation = CreationLabel(NoResponse)
    /\ network_list = <<>>
    /\ prediction_type = "none"
    /\ propagation_list = <<>>
    /\ results = NoJsonBody
    /\ resultIdx = 1
    /\ prediction_list = NoJsonBody
    /\ predictionIdx = 1
    /\ fetchLog = <<>>
    /\ csv_file = NoFile
    /\ computation_type = ""
    /\ shiftGridCenter = FALSE
    /\ publicPrediction = FALSE
    /\ network_section = "absent"
    /\ simulation_request = NoSimulationRequest

NextFetch ==
    \/ get_access_token
    \/ call_request_send
    \/ refresh_token
    \/ download_simulation_results
    \/ manifest_query
    \/ manifest_result
    \/ results_create_directory
    \/ download_query
    \/ download_result
    \/ download_simulation_predictions_results
    \/ simulation_result
    \/ predictions_query
    \/ predictions_result
    \/ prediction_start
    \/ prediction_manifest_query
    \/ prediction_manifest_result
    \/ prediction_create_directory
    \/ prediction_download_query
    \/ prediction_download_result

SpecFetch == InitFetch /\ [][NextFetch]_vars

\* The headers of the network files of the model: the mandatory ones with
\* every choice of coordinate headers, a file that lacks a mandatory header,
\* a file with a header no field matches, a file with terrain altitudes.
HeaderSets ==
    {mandatory_headers \cup c : c \in SUBSET CoordinateHeaders}
    \cup {(mandatory_headers \ {"frequency"}) \cup {TRANSMITTER_EASTING, TRANSMITTER_NORTHING},
          mandatory_headers \cup {TRANSMITTER_EASTING, TRANSMITTER_NORTHING,
                                  "repeatBaseStationNetworkId"},
          mandatory_headers \cup {TRANSMITTER_EASTING, TRANSMITTER_NORTHING,
                                  TERRAIN_ALTITUDE}}

\* A transmitter at longitude 2.5, latitude 45, or at easting 1, northing 1,
\* with a radius of 100 km and a terrain altitude of 0.3.
FileRow ==
    [BaseRow EXCEPT !.longitude = 25, !.latitude = 450, !.radius = 1000000,
                    !.terrainAltitude = <<3>>]

\* The rows of a file with these headers: two transmitters, every cell filled
\* in or one cell empty.
FileRows(headers) ==
    {[data |-> d, filled |-> f] :
        d \in {FileRow, [FileRow EXCEPT !.id = 2, !.x = 2, !.longitude = 35]},
        f \in {headers} \cup {headers \ {h} : h \in {TRANSMITTER_EASTING, TRANSMITTER_LATITUDE,
                                                       "frequency", TERRAIN_ALTITUDE}}}

CsvFiles ==
    {NoFile} \cup
    UNION {{[fieldnames |-> TRUE, headers |-> h, rows |-> r] :
               r \in UNION {[1..n -> FileRows(h)] : n \in 1..MaxRows}} : h \in HeaderSets}

EastingNorthing == {TRANSMITTER_EASTING, TRANSMITTER_NORTHING}

\* Rows of a SINR computation: techno, with none, one or all of the five
\* advanced fields, with or without the SSB and CSI antennas, and a row that
\* names a repeated base station.
SinrRows ==
    {[BaseRow EXCEPT !.keys = EastingNorthing \cup {TECHNO} \cup a \cup b, !.techno = t] :
        a \in {{}, {EPRE_OFFSET_SS_VS_RS}, mandatory_advanced_sinr_fields},
        b \in {{}, {ANTENNA_SSB, ANTENNA_CSI},
               {ANTENNA_SSB, ANTENNA_CSI, "repeatBaseStationNetworkId"}},
        t \in {SINR4G, SINR5G}}

\* Rows of an area prediction in planar coordinates (a radius of 0.1 and 1)
\* and in geographic ones (a radius of 100 km, 1000 km and 6000 km).
AreaRows ==
    {[BaseRow EXCEPT !.x = x, !.radius = r, !.resolution = res] :
        x \in {-7, 1, 7, 13}, r \in {1, 10}, res \in {3, 4}}
    \cup
    {[BaseRow EXCEPT !.keys = {TRANSMITTER_LONGITUDE, TRANSMITTER_LATITUDE},
                     !.longitude = 25, !.latitude = lat, !.radius = r] :
        lat \in {0, 450, 895}, r \in {1000000, 10000000, 60000000}}

\* Rows with a terrain altitude cell: empty, 0, 0.3, -0.2.
TerrainRows ==
    {[BaseRow EXCEPT !.keys = EastingNorthing \cup {TERRAIN_ALTITUDE}, !.terrainAltitude = c,
                     !.height = h] :
        c \in {<<>>, <<0>>, <<3>>, <<-2>>}, h \in {1, 2}}

ComputationTypes == {"", SINR4G, SINR5G}

\* create_network_list and the assembly on every file of CsvFiles, and the
\* assembly alone on one row of SinrRows, AreaRows or TerrainRows.
InitNetwork ==
    /\ entry \in {"create_network_list", "create_propagation_request"}
    /\ auth = "none"
    /\ pc = entry
    /\ retry = TRUE
    /\ observed = <<>>
    /\ nQueries = 0
    /\ manifestLeft = 0
    /\ ACCESS_TOKEN = None
    /\ REFRESH_TOKEN = None
    /\ tokenIssued = 0
    /\ crPc = "idle"
    /\ crRetry = 0
    /\ crReq = NoRequest
    /\ crSent = <<>>
    /\ crGot = <<>>
    /\ crRes = NoResponse
    /\ crRefreshes = 0
    /\ requested = {}
    /\ resource_list = <<>>
    /\ listIdx = 1
    /\ filePos = 0
    /\ antenna_dict = {<<"n1", "server">>}
    /\ mapdata_dict = {}
    /\ model_dict = {<<"n1", "server">>}
    /\ result_get = NoJsonBody
    /\ warnings = 0
    /\ lastCreation = CreationLabel(NoResponse)
    /\ prediction_type = "AREA"
    /\ propagation_list = <<>>
    /\ results = NoJsonBody
    /\ resultIdx = 1
    /\ prediction_list = NoJsonBody
    /\ predictionIdx = 1
    /\ fetchLog = <<>>
    /\ shiftGridCenter \in BOOLEAN
    /\ publicPrediction = FALSE
    /\ network_section = "absent"
    /\ simulation_request = NoSimulationRequest
    /\ IF entry = "create_network_list"
       THEN /\ csv_file \in CsvFiles
            /\ network_list = <<>>
            /\ computation_type = ""
       ELSE /\ csv_file = NoFile
            /\ network_list \in {<<row>> : row \in SinrRows \cup AreaRows \cup TerrainRows}
            /\ computation_type \in ComputationTypes

NextNetwork ==
    \/ create_network_list
    \/ create_propagation_request
    \/ create_propagation_request_row

SpecNetwork == InitNetwork /\ [][NextNetwork]_vars

\* The runs in which the client creates a resource and reads one: the map
\* data loop, and the submission of the simulation with the poll of its
\* status, with every authentication_data and both values of publicPrediction.
PublicEntries == {"mapdatas", "simulation"}

InitPublic ==
    /\ entry \in PublicEntries
    /\ auth \in AuthModes
    /\ pc = CASE entry = "antennas" -> "create_antennas"
              [] entry = "mapdatas" -> "create_mapdatas"
              [] entry = "models" -> "models"
              [] entry = "simulation" -> "create_propagation_request"
              [] OTHER -> "poll"
    /\ retry = TRUE
    /\ observed = <<>>
    /\ nQueries = 0
    /\ manifestLeft = 0
    /\ ACCESS_TOKEN = None
    /\ REFRESH_TOKEN = None
    /\ tokenIssued = 0
    /\ crPc = "idle"
    /\ crRetry = 0
    /\ crReq = NoRequest
    /\ crSent = <<>>
    /\ crGot = <<>>
    /\ crRes = NoResponse
    /\ crRefreshes = 0
    /\ requested = {}
    /\ resource_list \in CASE entry \in {"antennas", "mapdatas"} -> ListsOf(ResourceEntries)
                           [] entry = "models" -> ListsOf(ModelEntries)
                           [] OTHER -> {<<>>}
    /\ listIdx = 1
    /\ filePos = 0
    /\ antenna_dict = IF entry = "simulation" THEN {<<"n1", "server">>} ELSE {}
    /\ mapdata_dict \in IF entry = "models" THEN {{}, {<<"n1", "server">>}} ELSE {{}}
    /\ model_dict = IF entry = "simulation" THEN {<<"n1", "server">>} ELSE {}
    /\ result_get = NoJsonBody
    /\ warnings = 0
    /\ lastCreation = CreationLabel(NoResponse)
    /\ network_list \in IF entry = "simulation" THEN SubmittedLists ELSE {<<>>}
    /\ prediction_type \in IF entry = "simulation" THEN {"AREA", "POINT"} ELSE {"none"}
    /\ propagation_list = <<>>
    /\ results = NoJsonBody
    /\ resultIdx = 1
    /\ prediction_list = NoJsonBody
    /\ predictionIdx = 1
    /\ fetchLog = <<>>
    /\ csv_file = NoFile
    /\ computation_type = ""
    /\ shiftGridCenter = FALSE
    /\ publicPrediction \in IF auth = "none" THEN {FALSE} ELSE BOOLEAN
    /\ network_section = "absent"
    /\ simulation_request = NoSimulationRequest

NextPublic ==
    \/ get_access_token
    \/ call_request_send
    \/ refresh_token
    \/ PollQuery
    \/ pull_simulation_status
    \/ download_simulation_results
    \/ manifest_query
    \/ manifest_result
    \/ create_mapdatas
    \/ create_mapdatas_get
    \/ create_mapdatas_post
    \/ create_mapdatas_result
    \/ create_propagation_request
    \/ create_propagation_request_row
    \/ create_simulation_request_post
    \/ create_simulation_request_result

SpecPublic == InitPublic /\ [][NextPublic]_vars

(* ---------------------------- main sequence ---------------------------- *)

SessionRequest ==
    [method |-> "POST", url |-> get_resource_uri("sessions"), fileObject |-> FALSE,
     params |-> FALSE, uuid |-> "none"]

\* Mutant of create_session_outcome: a refused session is logged and the
\* sequence goes on.
create_session_outcome_NoExit(res) ==
    IF res.body.kind = "nojson" THEN "crash" ELSE "returned"

\* create_session, lines 1326-1330: .json() of the answer; sys.exit when
\* the object has a "status" other than 406.
create_session_outcome(res) ==
    IF res.body.kind = "nojson" THEN "crash"
    ELSE IF res.body.status # None /\ res.body.status # HTTP_NOT_ACCEPTABLE THEN "exit"
    ELSE "returned"

\* create_session, lines 1323-1326: the session is posted.
create_session_post ==
    /\ pc = "create_session"
    /\ CallRequest(SessionRequest)
    /\ pc' = "sessionWait"
    /\ UNCHANGED <<entry, auth, settingsVars, fetchVars, requestVars, resourceVars, requested,
                   pollVars, manifestLeft, tokenVars, antennaVars>>

\* create_session, lines 1326-1330.
create_session_result ==
    /\ pc = "sessionWait"
    /\ crPc = "return"
    /\ Returned
    /\ pc' = create_session_outcome(crRes)
    /\ UNCHANGED <<entry, auth, settingsVars, fetchVars, requestVars, resourceVars, requested,
                   pollVars, manifestLeft, tokenVars, antennaVars>>

\* The functions __main__ calls up to the submission, in the order of
\* lines 1765-1791 (settings without a "gob" section).
MainStages == <<"network", "mapdatas", "antennas", "session", "models", "simulation">>

StageRank(e) == CHOOSE k \in 1..Len(MainStages) : MainStages[k] = e

\* The position a function of the main sequence starts at.
StageStart(e) ==
    CASE e = "network" -> "create_network_list"
      [] e = "mapdatas" -> "create_mapdatas"
      [] e = "antennas" -> "create_antennas"
      [] e = "session" -> "create_session"
      [] e = "models" -> "models"
      [] e = "simulation" -> "create_propagation_request"

\* json_input_file["mapdata"], ["antennas"], ["models"] in the runs of the
\* main sequence: lists of one entry.
MainLists(e) ==
    CASE e \in {"mapdatas", "antennas"} -> {<<r>> : r \in ResourceEntries}
      [] e = "models" -> {<<m>> : m \in ModelEntries}
      [] OTHER -> {<<>>}

\* Mutant of main: the sequence goes on after a function has ended the run.
main_AfterExit ==
    /\ pc \in {"returned", "exit"}
    /\ entry \in {MainStages[k] : k \in 1..(Len(MainStages) - 1)}
    /\ entry' = MainStages[StageRank(entry) + 1]
    /\ pc' = StageStart(entry')
    /\ resource_list' \in MainLists(entry')
    /\ listIdx' = 1
    /\ filePos' = 0
    /\ result_get' = NoJsonBody
    /\ lastCreation' = CreationLabel(NoResponse)
    /\ UNCHANGED <<auth, settingsVars, fetchVars, requestVars, mapdata_dict, model_dict,
                   antenna_dict, warnings, requested, pollVars, manifestLeft,
                   tokenVars, crVars>>

\* __main__, lines 1765-1791: a function of the sequence has returned, the
\* next one is called with its part of the settings and with the mappings
\* the earlier ones returned.
main ==
    /\ pc = "returned"
    /\ entry \in {MainStages[k] : k \in 1..(Len(MainStages) - 1)}
    /\ entry' = MainStages[StageRank(entry) + 1]
    /\ pc' = StageStart(entry')
    /\ resource_list' \in MainLists(entry')
    /\ listIdx' = 1
    /\ filePos' = 0
    /\ result_get' = NoJsonBody
    /\ lastCreation' = CreationLabel(NoResponse)
    /\ UNCHANGED <<auth, settingsVars, fetchVars, requestVars, mapdata_dict, model_dict,
                   antenna_dict, warnings, requested, pollVars, manifestLeft,
                   tokenVars, crVars>>

\* The network files of the runs of the main sequence: one transmitter; the
\* same transmitter twice; a row without its frequency; a file with both
\* pairs of coordinate columns.
MainFiles ==
    LET planar == mandatory_headers \cup EastingNorthing
        both == mandatory_headers \cup CoordinateHeaders
        file(h, r) == [fieldnames |-> TRUE, headers |-> h, rows |-> r]
        row(f) == [data |-> FileRow, filled |-> f]
    IN  {file(planar, <<row(planar)>>),
         file(planar, <<row(planar), row(planar)>>),
         file(planar, <<row(planar \ {"frequency"})>>),
         file(both, <<row(both)>>)}

\* The main sequence from create_network_list to the answer to the
\* submission; a network section of the settings has a computationType that
\* is neither 4G nor 5G, and lacks its resolution when it is incomplete.
InitMain ==
    /\ entry = "network"
    /\ auth \in {"none", "required"}
    /\ pc = "create_network_list"
    /\ retry = TRUE
    /\ observed = <<>>
    /\ nQueries = 0
    /\ manifestLeft = 0
    /\ ACCESS_TOKEN = None
    /\ REFRESH_TOKEN = None
    /\ tokenIssued = 0
    /\ crPc = "idle"
    /\ crRetry = 0
    /\ crReq = NoRequest
    /\ crSent = <<>>
    /\ crGot = <<>>
    /\ crRes = NoResponse
    /\ crRefreshes = 0
    /\ requested = {}
    /\ resource_list = <<>>
    /\ listIdx = 1
    /\ filePos = 0
    /\ antenna_dict = {}
    /\ mapdata_dict = {}
    /\ model_dict = {}
    /\ result_get = NoJsonBody
    /\ warnings = 0
    /\ lastCreation = CreationLabel(NoResponse)
    /\ network_list = <<>>
    /\ prediction_type \in PredictionTypes
    /\ propagation_list = <<>>
    /\ results = NoJsonBody
    /\ resultIdx = 1
    /\ prediction_list = NoJsonBody
    /\ predictionIdx = 1
    /\ fetchLog = <<>>
    /\ csv_file \in MainFiles
    /\ network_section \in NetworkSections
    /\ computation_type = IF network_section = "absent" THEN "" ELSE "COVERAGE"
    /\ shiftGridCenter = FALSE
    /\ publicPrediction = FALSE
    /\ simulation_request = NoSimulationRequest

NextMain ==
    \/ get_access_token
    \/ call_request_send
    \/ refresh_token
    \/ create_network_list
    \/ create_mapdatas
    \/ create_mapdatas_get
    \/ create_mapdatas_post
    \/ create_mapdatas_result
    \/ create_antennas
    \/ create_antennas_post
    \/ create_antennas_result
    \/ create_session_post
    \/ create_session_result
    \/ create_model_post
    \/ create_model_file_result
    \/ create_model_result
    \/ create_propagation_request
    \/ create_propagation_request_row
    \/ create_simulation_request_post
    \/ create_simulation_request_result
    \/ main

SpecMain == InitMain /\ [][NextMain]_vars

(* ------------------------- vocabulary of the claims -------------------- *)

\* The response at position i of the poll was not a 404 and carried a job
\* status with state st.
SawState(i, st) == ~observed[i].notFound /\ observed[i].state = st

LastSaw(st) == Len(observed) > 0 /\ SawState(Len(observed), st)

LastNotFound == Len(observed) > 0 /\ observed[Len(observed)].notFound

CountSaw(st) == Cardinality({i \in 1..Len(observed) : SawState(i, st)})

\* Every response before the last one carried one of the states of S.
EarlierIn(S) == \A i \in 1..(Len(observed) - 1) : \E st \in S : SawState(i, st)

AllIn(S) == \A i \in 1..Len(observed) : \E st \in S : SawState(i, st)

\* The process has ended abnormally: sys.exit(errno.EINVAL) or an exception
\* nothing catches.
Fatal == pc \in {"exit", "crash"}

\* The poll loop has handed over: control is between two loop iterations or
\* has left the loop, and no request of a later step is under way.
Settled == crPc = "idle" /\ "results" \notin requested /\ "predictions" \notin requested

\* The poller has returned normally and nothing ran after it.
ReturnedNormally == pc = AfterPoll(entry)

(* -------------------------------- claims ------------------------------- *)

\* C1: prediction-group polling over a response sequence made of WAITING
\* responses, exactly one ERROR and a final DONE: after the ERROR (and any
\* WAITING that follows) the poller is back at the top of its loop, at DONE it
\* has returned normally, and it has issued exactly one status query per
\* response.
C1_PredictionGroupRetriesOnce ==
    (/\ entry = "predictiongroup"
     /\ Settled
     /\ EarlierIn({"WAITING", "ERROR"})
     /\ CountSaw("ERROR") = 1)
    => /\ AllIn({"WAITING", "ERROR"}) => pc = "poll"
       /\ LastSaw("DONE") => pc = "returned"
       /\ (AllIn({"WAITING", "ERROR"}) \/ LastSaw("DONE")) => nQueries = Len(observed)

\* C1 witness: the sequence [WAITING, WAITING, ERROR, DONE] has been polled
\* and the poller has returned.
C1_Witness ==
    /\ entry = "predictiongroup"
    /\ Len(observed) = 4
    /\ SawState(1, "WAITING") /\ SawState(2, "WAITING")
    /\ SawState(3, "ERROR") /\ SawState(4, "DONE")
    /\ pc = "returned"
    /\ nQueries = 4

\* C2 (as claimed): in prediction-group and post-processing polling the first
\* ERROR never ends the process, the second ERROR ends it, and for prediction
\* groups the per-prediction error list is queried before the exit.
C2_FirstErrorRetriedSecondFatal ==
    (/\ entry \in {"predictiongroup", "postprocessing"}
     /\ crPc = "idle"
     /\ AllIn({"WAITING", "ERROR"}))
    => /\ (CountSaw("ERROR") = 1 /\ LastSaw("ERROR")) => pc = "poll"
       /\ (CountSaw("ERROR") = 2 /\ entry = "postprocessing") => Fatal
       /\ (CountSaw("ERROR") = 2 /\ entry = "predictiongroup")
             => \/ pc = "predErrors"
                \/ Fatal /\ "predictions" \in requested

\* C3: simulation polling: the first ERROR, after any number of WAITING
\* responses, ends the process, and no status query follows it.
C3_SimulationErrorIsFatal ==
    (/\ entry = "simulation"
     /\ EarlierIn({"WAITING"})
     /\ LastSaw("ERROR"))
    => /\ Fatal
       /\ nQueries = Len(observed)

\* C3 witness: WAITING, WAITING, ERROR was polled and the process has exited.
C3_Witness ==
    /\ entry = "simulation"
    /\ Len(observed) = 3
    /\ SawState(1, "WAITING") /\ SawState(2, "WAITING") /\ SawState(3, "ERROR")
    /\ pc = "exit"

\* C4 (as claimed): when the simulation status poll returns DONE_WITH_ERROR,
\* whether or not the response carries errorMessages, polling stops without a
\* fatal exit and the run goes on to the manifest query of the result fetch.
C4_DoneWithErrorProceedsToFetch ==
    (/\ entry = "simulation"
     /\ Settled
     /\ LastSaw("DONE_WITH_ERROR"))
    => pc \in {"fetch", "manifest"}

\* C5 (as claimed): in each of the three pollers a DONE_WITH_ERROR response
\* makes the poller return normally, with no further status query.
C5_DoneWithErrorIsTerminalSuccess ==
    (/\ entry \in Pollers
     /\ Settled
     /\ LastSaw("DONE_WITH_ERROR"))
    => /\ pc \in {AfterPoll(entry), "manifest"}
       /\ nQueries = Len(observed)

\* C6: in each of the three pollers a CANCELED response exits the process at
\* once, with the error-retry still available or already used, and no status
\* query follows it.
C6_CanceledIsFatal ==
    (/\ entry \in Pollers
     /\ LastSaw("CANCELED"))
    => /\ pc = "exit"
       /\ nQueries = Len(observed)

\* C6 witness: post-processing polling has used its error-retry, then met
\* CANCELED and exited.
C6_Witness ==
    /\ entry = "postprocessing"
    /\ ~retry
    /\ CountSaw("ERROR") = 1
    /\ LastSaw("CANCELED")
    /\ pc = "exit"

\* C7 (as claimed): in each of the three pollers a 404 response to the status
\* query, whatever its body, stops polling with no fatal exit, and the body is
\* not interpreted: the poller returns and its error-retry is left as it was.
C7_NotFoundStopsPolling ==
    [][(/\ pc = "pollWait"
        /\ crPc = "return"
        /\ crRes.code = HTTP_NOT_FOUND)
       => (/\ pc' = AfterPoll(entry)
           /\ retry' = retry)]_vars

\* An ERROR response that ends the poll: simulation polling has no retry, the
\* two other pollers have used theirs on an earlier ERROR.
LastSawFatalError ==
    /\ LastSaw("ERROR")
    /\ entry = "simulation" \/ CountSaw("ERROR") >= 2

\* C8 (as claimed): a poller goes back to the top of its loop after every
\* WAITING response, and has left the loop after a DONE, a DONE_WITH_ERROR, a
\* fatal ERROR, a CANCELED or a 404 response.
C8_PollsUntilTerminal ==
    (/\ entry \in Pollers
     /\ Settled)
    => /\ LastSaw("WAITING") => pc = "poll"
       /\ (\/ LastSaw("DONE")
           \/ LastSaw("DONE_WITH_ERROR")
           \/ LastSawFatalError
           \/ LastSaw("CANCELED")
           \/ LastNotFound) => pc # "poll"

\* C9: one call_request sends at most two requests and refreshes at most
\* once; it returns the last response it received; a second request is sent
\* exactly when the first response was 403 and the refresh succeeded, and the
\* response to it is returned as received, a 403 included.
C9_OneRetryAfter403 ==
    /\ Len(crSent) <= 2
    /\ Len(crGot) = Len(crSent)
    /\ crRefreshes <= 1
    /\ Len(crSent) = 2 => crRefreshes = 1 /\ crGot[1].code = HTTP_FORBIDDEN
    /\ crPc = "return"
          => /\ crRes = crGot[Len(crGot)]
             /\ crGot[1].code = HTTP_FORBIDDEN => Len(crGot) = 2 /\ crRefreshes = 1
             /\ crGot[1].code # HTTP_FORBIDDEN => Len(crGot) = 1 /\ crRefreshes = 0

\* C9 witness: two 403 responses in a row; the second one is returned.
C9_Witness ==
    /\ crPc = "return"
    /\ Len(crGot) = 2
    /\ crGot[1].code = HTTP_FORBIDDEN
    /\ crGot[2].code = HTTP_FORBIDDEN
    /\ crRes = crGot[2]
    /\ crRefreshes = 1

\* C10 (as claimed): the request resent after a 403 equals the first one in
\* method, URL, JSON body, multipart content, params and timeout; only the
\* token differs, and it is the access token the refresh returned.
C10_ResendIsSameRequest ==
    Len(crSent) = 2
    => /\ crSent[2] = [crSent[1] EXCEPT !.token = crSent[2].token]
       /\ crSent[2].token = tokenIssued
       /\ crSent[2].token # crSent[1].token

\* C11: the token pair is never partially updated.  In every state the
\* access token is set exactly when the refresh token is set and both carry
\* the number of the same token response; a step changes the pair only by
\* replacing both with the tokens of a new 200 response of the token endpoint;
\* a token call that ends the process leaves the pair as it was.
C11_TokenPairNeverPartial ==
    /\ ACCESS_TOKEN = None /\ REFRESH_TOKEN = None
    /\ [][/\ (ACCESS_TOKEN' = None) <=> (REFRESH_TOKEN' = None)
          /\ ACCESS_TOKEN' = REFRESH_TOKEN'
          /\ <<ACCESS_TOKEN, REFRESH_TOKEN>>' # <<ACCESS_TOKEN, REFRESH_TOKEN>>
                => /\ tokenIssued' = tokenIssued + 1
                   /\ ACCESS_TOKEN' = tokenIssued'
                   /\ REFRESH_TOKEN' = tokenIssued'
                   /\ ~Fatal'
          /\ Fatal' => UNCHANGED tokenVars]_vars

\* C11 witness: the pair of the second token response (a refresh) is still in
\* place after a later refresh_token call failed and ended the process.
C11_Witness ==
    /\ pc = "exit"
    /\ crPc = "refresh"
    /\ tokenIssued = 2
    /\ ACCESS_TOKEN = 2
    /\ REFRESH_TOKEN = 2

(* ------------------- vocabulary of the resource claims ----------------- *)

ResourceKinds == {"antennas", "mapdatas", "models"}

\* The bijections of 1..n.
Bijections(n) == {f \in [1..n -> 1..n] : \A i, j \in 1..n : f[i] = f[j] => i = j}

KeysOf(d) == {d.v[i][1] : i \in 1..Len(d.v)}

\* Two JSON values are equal up to ordering: dicts with the same keys and
\* values equal up to ordering, lists that are rearrangements of one another
\* up to the ordering of their elements, equal scalars.
RECURSIVE EqualUpToOrder(_, _)
EqualUpToOrder(a, b) ==
    /\ a.t = b.t
    /\ CASE a.t = "dict" ->
              /\ KeysOf(a) = KeysOf(b)
              /\ Len(a.v) = Len(b.v)
              /\ \A k \in KeysOf(a) : EqualUpToOrder(GetItem(a, k), GetItem(b, k))
         [] a.t = "list" ->
              /\ Len(a.v) = Len(b.v)
              /\ \E f \in Bijections(Len(a.v)) :
                    \A i \in 1..Len(a.v) : EqualUpToOrder(a.v[i], b.v[f[i]])
         [] OTHER -> a.v = b.v

\* Two entries of the list have the same name and contents that differ even
\* up to ordering.
HasConflict(list) ==
    \E i, j \in 1..Len(list) :
       /\ EntryName(list[i]) = EntryName(list[j])
       /\ ~EqualUpToOrder(list[i], list[j])

\* The mapping the entry function builds.
BuiltDict ==
    CASE entry = "antennas" -> antenna_dict
      [] entry = "mapdatas" -> mapdata_dict
      [] entry = "models" -> model_dict
      [] OTHER -> {}

\* The identifiers the mapping holds for a name.
IdsOf(d, n) == {p[2] : p \in {q \in d : q[1] = n}}

\* C12 (as claimed): for antennas, map data and propagation models alike, a
\* list holding two entries with the same name and contents that differ up
\* to ordering ends the run with a fatal exit before any request is issued
\* for the list: no request is ever prepared or sent, and the run is either
\* not started or has exited.
C12_ConflictFailsBeforeAnyRequest ==
    (entry \in ResourceKinds /\ HasConflict(resource_list))
    => /\ requested = {}
       /\ crPc = "idle"
       /\ pc \in {"create_antennas", "create_mapdatas", "models", "exit"}

\* C13: a list in which all entries of equal name have equal contents up to
\* ordering passes validation (validate_antennas / validate_mapdatas do not
\* exit; create_model has no validation to pass), and when the entry
\* function returns the mapping holds exactly one identifier for each name of
\* the list.
C13_EqualDuplicatesAccepted ==
    /\ [](pc = "returned" /\ entry \in ResourceKinds
            => \A i \in 1..Len(resource_list) :
                  Cardinality(IdsOf(BuiltDict, EntryName(resource_list[i]))) = 1)
    /\ [][(pc \in {"create_antennas", "create_mapdatas"} /\ ~HasConflict(resource_list))
            => pc' # "exit"]_vars

\* C13 witness: a list of two entries of one name, different as written and
\* equal up to ordering, went through validation and creation; the mapping
\* has one identifier for the name.
C13_Witness ==
    /\ entry \in {"antennas", "mapdatas"}
    /\ pc = "returned"
    /\ Len(resource_list) = 2
    /\ resource_list[1] # resource_list[2]
    /\ EntryName(resource_list[1]) = EntryName(resource_list[2])
    /\ ~HasConflict(resource_list)
    /\ Cardinality(BuiltDict) = 1

\* A resource loop reads the answer that decides the entry at listIdx: the
\* answer to the creation POST, but for the multipart POST of a model that
\* is posted again as JSON.
DecidesEntry ==
    /\ crPc = "return"
    /\ pc \in {"antennaWait", "mapdataPostWait", "modelWait", "modelFileWait"}
    /\ pc = "modelFileWait" => ~HasKey(resource_list[listIdx], "type")

\* The step maps the name of the entry at listIdx to the identifier of the
\* answer and goes on with the list.
MapsToAnswer ==
    /\ crRes.body.uuid # "none"
    /\ IdsOf(BuiltDict', EntryName(resource_list[listIdx])) = {crRes.body.uuid}
    /\ listIdx' = listIdx + 1
    /\ ~Fatal'

\* The step takes the answer as a success: the name is mapped to the
\* identifier of the answer; an answer that has none ends the run (KeyError).
Accepts == IF crRes.body.uuid # "none" THEN MapsToAnswer ELSE pc' = "crash"

\* C14 (as claimed): for antennas, map data and models alike, the HTTP
\* status of the creation answer decides: 201 maps the name to the identifier
\* of the answer, 202 does the same with a warning, any other status ends the
\* run with the entry index where it was.
C14_AsClaimed ==
    [][DecidesEntry /\ crRes.body.kind = "object"
         => /\ (crRes.code = HTTP_CREATED /\ crRes.body.uuid # "none")
                  => MapsToAnswer
            /\ (crRes.code = HTTP_ACCEPTED /\ crRes.body.uuid # "none")
                  => MapsToAnswer /\ warnings' = warnings + 1
            /\ crRes.code \notin {HTTP_CREATED, HTTP_ACCEPTED}
                  => Fatal' /\ listIdx' = listIdx]_vars

\* C14 (amended): for antennas the HTTP status decides: 201 maps the name to
\* the identifier of the answer, 202 does the same after a warning, any other
\* status exits.  For map data and models the HTTP status is not read and
\* the status field of the body decides, without a warning: a body with no
\* status field (for map data also status 201) maps the name to the
\* identifier of the answer; status 406 does the same (for map data unless
\* the layers of the GET answer differ from the payload's, which exits); any
\* other status exits.  An answer that is not JSON ends the run.  A step that
\* ends the run leaves the entry index and the mapping as they were.
C14_StatusHandling ==
    [][DecidesEntry
         => LET st == crRes.body.status IN
            /\ crRes.body.kind # "object" => pc' = "crash"
            /\ (crRes.body.kind = "object" /\ entry = "antennas")
                  => /\ crRes.code = HTTP_CREATED => Accepts /\ warnings' = warnings
                     /\ crRes.code = HTTP_ACCEPTED => Accepts /\ warnings' = warnings + 1
                     /\ crRes.code \notin {HTTP_CREATED, HTTP_ACCEPTED} => pc' = "exit"
            /\ (crRes.body.kind = "object" /\ entry = "mapdatas")
                  => /\ warnings' = warnings
                     /\ st \in {None, HTTP_CREATED} => Accepts
                     /\ st = HTTP_NOT_ACCEPTABLE
                           => IF result_get.layers = "other" THEN pc' = "exit" ELSE Accepts
                     /\ st \notin {None, HTTP_CREATED, HTTP_NOT_ACCEPTABLE} => pc' = "exit"
            /\ (crRes.body.kind = "object" /\ entry = "models")
                  => /\ warnings' = warnings
                     /\ st \in {None, HTTP_NOT_ACCEPTABLE} => Accepts
                     /\ st \notin {None, HTTP_NOT_ACCEPTABLE} => pc' = "exit"
            /\ Fatal' => listIdx' = listIdx /\ BuiltDict' = BuiltDict]_vars

\* C14 witness: create_model returned after an answer of status 406 to the
\* creation of its last model, whose name is in the mapping.
C14_Witness ==
    /\ entry = "models"
    /\ pc = "returned"
    /\ lastCreation.code = HTTP_NOT_ACCEPTABLE
    /\ lastCreation.status = HTTP_NOT_ACCEPTABLE
    /\ IdsOf(model_dict, EntryName(resource_list[Len(resource_list)])) = {"server"}

\* The names a mapping has an identifier for.
NamesIn(d) == {p[1] : p \in d}

\* The step at hand looks up a name that is in no mapping: the map data of
\* the model at listIdx, or the antenna or the propagation model of the row
\* at listIdx.
LooksUpAbsentName ==
    \/ /\ pc = "models"
       /\ listIdx <= Len(resource_list)
       /\ HasKey(resource_list[listIdx], "mapdataName")
       /\ GetItem(resource_list[listIdx], "mapdataName").v \notin NamesIn(mapdata_dict)
    \/ /\ pc = "rows"
       /\ listIdx <= Len(network_list)
       /\ \/ /\ network_list[listIdx].antenna # "none"
             /\ network_list[listIdx].antenna \notin NamesIn(antenna_dict)
          \/ network_list[listIdx].model \notin NamesIn(model_dict)

\* C15: a step that looks up a name absent from the mapping ends the run with
\* a fatal exit; it prepares and sends no request, creates no resource and
\* leaves the three mappings as they were.
C15_AbsentNameIsFatal ==
    [][LooksUpAbsentName
         => /\ pc' = "exit"
            /\ UNCHANGED <<requested, crVars, antenna_dict, mapdata_dict, model_dict,
                           lastCreation, propagation_list>>]_vars

\* C15 witness: create_model created its first model, and ended the run on
\* the second one, whose map data name is in no mapping.
C15_Witness ==
    /\ entry = "models"
    /\ pc = "exit"
    /\ crPc = "idle"
    /\ listIdx = 2
    /\ model_dict # {}
    /\ HasKey(resource_list[listIdx], "mapdataName")
    /\ GetItem(resource_list[listIdx], "mapdataName").v \notin NamesIn(mapdata_dict)
    /\ lastCreation.uuid = "server"

(* ------------------ vocabulary of the submission claims ---------------- *)

\* The answer to the simulation create call is at hand.
ReadsSubmission == pc = "submitWait" /\ crPc = "return"

\* C16: an answer to the simulation create call whose status is neither 200
\* nor 201 ends the run (the exit that follows the log of the server's
\* message, or the exception of res.json() on a body that is not JSON), and
\* no status poll has been or will be issued; an answer of status 200 or 201
\* that carries the job document takes the run to the status poll.
C16_SubmissionFailureIsFatal ==
    /\ [](entry = "simulation" /\ lastCreation.code \notin {None, HTTP_OK, HTTP_CREATED}
            => Fatal /\ "status" \notin requested)
    /\ []("status" \in requested /\ entry = "simulation"
            => lastCreation.code \in {HTTP_OK, HTTP_CREATED})
    /\ [][ReadsSubmission
            => /\ crRes.code \notin {HTTP_OK, HTTP_CREATED} => Fatal'
               /\ (crRes.code \in {HTTP_OK, HTTP_CREATED} /\ crRes.body.uuid # "none")
                     => pc' = "poll"]_vars

\* C16 witness: the create call was answered 400 with a JSON body and the
\* process has exited without a status poll.
C16_Witness ==
    /\ entry = "simulation"
    /\ lastCreation.code = HTTP_BAD_REQUEST
    /\ pc = "exit"
    /\ "simulations" \in requested
    /\ "status" \notin requested

\* C17 (as claimed): after a successful submission every status poll and
\* every result query carries the job identifier of the creation answer.
C17_PollsUseServerIdentifier ==
    (entry = "simulation" /\ lastCreation.code \in {HTTP_OK, HTTP_CREATED})
    => \A i \in 1..Len(crSent) :
          crSent[i].url \in {"status", "results"} => crSent[i].uuid = lastCreation.uuid

\* C18: the simulation create request goes out only inside the one
\* call_request of the submission; there it is sent once, and once more
\* exactly when the first answer was 403 and the refresh succeeded; whatever
\* the answer to the create call, the run does not come back to the
\* submission.
C18_SubmissionSentOnce ==
    /\ []((Len(crSent) > 0 /\ crSent[1].url = "simulations")
            => /\ pc = "submitWait" \/ Fatal
               /\ Len(crSent) <= 2
               /\ Len(crSent) = 2 => crGot[1].code = HTTP_FORBIDDEN /\ crRefreshes = 1)
    /\ [][ReadsSubmission => crRes = crGot[Len(crGot)] /\ pc' \notin {"submit", "submitWait"}]_vars
    /\ [][pc' = "submit" => pc \in {"rows", "submit"}]_vars

\* C18 witness: the create request was sent, answered 403, sent again after
\* the refresh and answered 400; that answer is returned, with no third send.
C18_Witness ==
    /\ ReadsSubmission
    /\ Len(crSent) = 2
    /\ crGot[1].code = HTTP_FORBIDDEN
    /\ crGot[2].code = HTTP_BAD_REQUEST
    /\ crRes = crGot[2]

(* ------------------- vocabulary of the assembly claims ----------------- *)

\* Two rows give base stations equal on the nine compared attributes:
\* network id, name, x, y, z, azimuth, downtilt, frequency, power.
SameNine(r1, r2) ==
    /\ r1.id = r2.id /\ r1.name = r2.name
    /\ r1.x = r2.x /\ r1.y = r2.y /\ r1.height = r2.height
    /\ r1.azimuth = r2.azimuth /\ r1.downtilt = r2.downtilt
    /\ r1.frequency = r2.frequency /\ r1.power = r2.power

\* The row has what its base station, its AREA equipment and its model need.
RowOk(r) ==
    /\ r.antenna = "none" \/ r.antenna \in NamesIn(antenna_dict)
    /\ r.model \in NamesIn(model_dict)
    /\ r.area

C20_OneAreaPerScenario ==
    /\ [](/\ requested = {}
          /\ prediction_type # "POINT"
                => \A i \in 1..Len(propagation_list) :
                      /\ Len(propagation_list[i].userEquipments) = 1
                      /\ propagation_list[i].userEquipments[1].type = "AREA")
    /\ [][(pc = "rows" /\ prediction_type # "POINT")
            => LET row == network_list[listIdx]
                   earlier == {j \in 1..(listIdx - 1) : SameNine(network_list[j], row)}
               IN  /\ earlier # {}
                         => pc' = "exit" /\ UNCHANGED propagation_list
                   /\ (earlier = {} /\ RowOk(row))
                         => /\ pc' # "exit"
                            /\ Len(propagation_list') = Len(propagation_list) + 1
                            /\ SubSeq(propagation_list', 1, Len(propagation_list))
                                  = propagation_list
                            /\ propagation_list'[Len(propagation_list')].baseStation.name
                                  = row.name]_vars

\* C20 witness: the second row differs from the first in its comments only;
\* the run has ended on it with the one scenario of the first row.
C20_Witness ==
    /\ prediction_type # "POINT"
    /\ pc = "exit"
    /\ listIdx = 2
    /\ Len(network_list) = 2
    /\ network_list[1] # network_list[2]
    /\ SameNine(network_list[1], network_list[2])
    /\ RowOk(network_list[2])
    /\ Len(propagation_list) = 1

\* The base station bs is the one built from the row r.
StationOfRow(bs, r) ==
    /\ bs.networkId = r.id /\ bs.name = r.name
    /\ bs.x = r.x /\ bs.y = r.y /\ bs.z = r.height
    /\ bs.azimuth = r.azimuth /\ bs.downtilt = r.downtilt
    /\ bs.carrierFrequency = r.frequency /\ bs.transmitPower = r.power
    /\ bs.description = r.comments

\* The number of distinct base stations among the first k rows.
DistinctStations(k) ==
    Cardinality({{j \in 1..k : SameNine(network_list[i], network_list[j])} : i \in 1..k})

\* C21: the scenarios are in the order of the rows that started them: after
\* k rows were taken, scenario i is that of row i, and the number of
\* scenarios is the number of distinct base stations among these rows.
C21_ScenariosInRowOrder ==
    LET k == listIdx - 1
    IN  /\ Len(propagation_list) = k
        /\ \A i \in 1..k : StationOfRow(propagation_list[i].baseStation, network_list[i])
        /\ Len(propagation_list) = DistinctStations(k)

\* C21 witness: a request of two scenarios was produced from two rows with
\* different base stations.
C21_Witness ==
    /\ pc = "returned"
    /\ Len(network_list) = 2
    /\ ~SameNine(network_list[1], network_list[2])
    /\ Len(propagation_list) = 2
    /\ propagation_list[1] # propagation_list[2]

(* --------------------- vocabulary of the fetch claims ------------------ *)

\* The positions of fetchLog with the answers to the manifest queries of
\* prediction k (0: the simulation-level manifest).
ManifestEvents(log, k) ==
    {i \in 1..Len(log) : log[i].op = "manifest" /\ log[i].prediction = k}

\* The manifests a fetch may ask for: that of the simulation, those of the
\* predictions.
Manifests == 0..2

\* The fetch is at the top of a manifest loop, or waits for the answer to a
\* manifest query.
AtManifestQuery == pc \in {"manifest", "predictionManifest"}

AwaitsManifest == pc \in {"manifestWait", "predictionManifestWait"}

\* C22: a manifest is asked for at most 3 times; no manifest query follows
\* an answer with a non-empty manifest; an answer 200 with an empty manifest
\* is followed by another query when it was the first or the second, and by
\* none when it was the third.
C22_ManifestRetry ==
    /\ [](\A k \in Manifests :
             /\ Cardinality(ManifestEvents(fetchLog, k)) <= 3
             /\ \A i, j \in ManifestEvents(fetchLog, k) : i < j => fetchLog[i].len = 0)
    /\ [](AtManifestQuery => manifestLeft > 0)
    /\ [][(AwaitsManifest /\ crPc = "return" /\ crRes.body.kind # "nojson")
            => LET k == IF pc = "manifestWait" THEN 0 ELSE predictionIdx
                   made == Cardinality(ManifestEvents(fetchLog', k))
               IN  /\ crRes.body.len > 0 => ~AtManifestQuery'
                   /\ (crRes.body.len = 0 /\ crRes.code = HTTP_OK)
                         => (AtManifestQuery' <=> made < 3)]_vars

\* C22 witness: a fetch has returned after a manifest was asked for three
\* times, the third answer being the first with a non-empty manifest.
C22_Witness ==
    /\ pc = "returned"
    /\ \E k \in Manifests :
          \E a, b, c \in ManifestEvents(fetchLog, k) :
             /\ a < b /\ b < c
             /\ fetchLog[a].len = 0 /\ fetchLog[b].len = 0 /\ fetchLog[c].len > 0

\* C23: in both fetches a manifest query answered 400 or 404 ends the run
\* at once, whatever its body: it is the last thing the fetch did, no later
\* manifest query, directory, download or file follows it.
C23_BadManifestStatusIsFatal ==
    \A i \in 1..Len(fetchLog) :
       (fetchLog[i].op = "manifest" /\ fetchLog[i].code \in {HTTP_BAD_REQUEST, HTTP_NOT_FOUND})
       => i = Len(fetchLog) /\ Fatal

\* The part of C23 that holds: the simulation-level fetch.
C23_SimulationLevel ==
    entry = "download_simulation_results" => C23_BadManifestStatusIsFatal

\* A prediction manifest was answered 400 or 404 and an artifact of it was
\* downloaded and written.
C23_DownloadAfterBadStatus ==
    \E i, j \in 1..Len(fetchLog) :
       /\ i < j
       /\ fetchLog[i].op = "manifest"
       /\ fetchLog[i].code \in {HTTP_BAD_REQUEST, HTTP_NOT_FOUND}
       /\ fetchLog[j].op = "write"
       /\ fetchLog[j].prediction = fetchLog[i].prediction

\* A manifest query of the simulation-level fetch has been issued.
ManifestQueried == pc = "manifestWait" \/ "results" \in requested

\* C24: in the main sequence a result-manifest query is issued only if the
\* last status response the simulation poller observed had state DONE or
\* DONE_WITH_ERROR.
C24_FetchOnlyAfterSuccess ==
    (entry = "simulation" /\ ManifestQueried)
    => LastSaw("DONE") \/ LastSaw("DONE_WITH_ERROR")

\* What holds instead: the last status response had one of these two states
\* or was a 404.
C24_FetchAfterSuccessOrNotFound ==
    (entry = "simulation" /\ ManifestQueried)
    => LastSaw("DONE") \/ LastSaw("DONE_WITH_ERROR") \/ LastNotFound

\* The positions of fetchLog with the answers to the downloads of prediction k.
DownloadEvents(log, k) ==
    {i \in 1..Len(log) : log[i].op = "download" /\ log[i].prediction = k}

\* The position of i among the positions S, counted from 1.
RankIn(S, i) == Cardinality({j \in S : j <= i})

\* The part of C25 that holds: the artifacts are asked for in the order of
\* the manifest, one download for each descriptor; a download answered with
\* a status other than 200 ends the run: it is the last thing the fetch did,
\* so no later descriptor is asked for and no directory or file is made for
\* it; a directory for a file name is made only after the download of a
\* descriptor with that folder was answered 200, and a file is written only
\* for a descriptor whose download was answered 200; a fetch that returns
\* has downloaded and written every descriptor of its manifests.
C25_FailedDownloadIsFatal ==
    /\ [](\A i \in 1..Len(fetchLog) :
             /\ (fetchLog[i].op = "download" /\ fetchLog[i].code # HTTP_OK)
                   => i = Len(fetchLog) /\ pc = "exit"
             /\ fetchLog[i].op = "write"
                   => /\ i > 1
                      /\ \E j \in {i - 1, i - 2} :
                            /\ j >= 1
                            /\ fetchLog[j].op = "download"
                            /\ fetchLog[j].code = HTTP_OK
                            /\ fetchLog[j].name = fetchLog[i].name
                            /\ fetchLog[j].prediction = fetchLog[i].prediction
             /\ fetchLog[i].op = "makedirs"
                   => /\ i > 1
                      /\ fetchLog[i - 1].op = "download"
                      /\ fetchLog[i - 1].code = HTTP_OK
                      /\ rsplit(fetchLog[i - 1].name).folder_path = fetchLog[i].name)
    /\ [](pc \in {"results", "downloadWait", "predictionResults", "predictionDownloadWait"}
             => LET k == IF pc \in {"results", "downloadWait"} THEN 0 ELSE predictionIdx
                    done == DownloadEvents(fetchLog, k)
                IN  /\ Cardinality(done) = resultIdx - 1
                    /\ results.kind = "list"
                          => \A i \in done :
                                fetchLog[i].name = results.items[RankIn(done, i)].fileName)
    /\ [][(pc \in {"downloadWait", "predictionDownloadWait"} /\ pc' = "returned")
            => LET k == IF pc = "downloadWait" THEN 0 ELSE predictionIdx
                   done == DownloadEvents(fetchLog', k)
               IN  /\ Cardinality(done) = results.len
                   /\ \A i \in done : /\ fetchLog'[i].code = HTTP_OK
                                      /\ fetchLog'[i].name = results.items[RankIn(done, i)].fileName
                   /\ fetchLog'[Len(fetchLog')].op = "write"]_vars

\* C25: for each descriptor of the manifest the artifact is downloaded: a
\* download answered 200 is followed by the writing of its file, and the
\* run goes on to the next descriptor or returns; a download answered with
\* another status ends the run, with nothing made or written for it.
C25_EachDescriptorDownloaded ==
    [][(pc \in {"downloadWait", "predictionDownloadWait"} /\ crPc = "return")
         => LET k == IF pc = "downloadWait" THEN 0 ELSE predictionIdx
                result == results.items[resultIdx]
                last == fetchLog'[Len(fetchLog')]
            IN  IF crRes.code = HTTP_OK
                THEN /\ ~Fatal'
                     /\ last = Ev("write", k, None, 0, result.fileName)
                ELSE /\ pc' = "exit"
                     /\ last = Ev("download", k, crRes.code, 0, result.fileName)]_vars

\* The same for the simulation-level fetch alone.
C25_SimulationLevel ==
    [][(entry = "download_simulation_results" /\ pc = "downloadWait" /\ crPc = "return")
               => LET result == results.items[resultIdx]
                      last == fetchLog'[Len(fetchLog')]
                  IN  IF crRes.code = HTTP_OK
                      THEN /\ ~Fatal'
                           /\ last = Ev("write", 0, None, 0, result.fileName)
                      ELSE /\ pc' = "exit"
                           /\ last = Ev("download", 0, crRes.code, 0, result.fileName)]_vars

\* The second descriptor of a manifest has a folder, its download failed
\* after the first was written, and no directory was made.
C25_FailureReached ==
    /\ pc = "exit"
    /\ entry = "download_simulation_results"
    /\ results.kind = "list" /\ results.len = 2
    /\ rsplit(results.items[2].fileName).folder_path # <<>>
    /\ rsplit(results.items[1].fileName).folder_path = <<>>
    /\ Len(fetchLog) > 2
    /\ fetchLog[Len(fetchLog)].op = "download"
    /\ fetchLog[Len(fetchLog)].name = results.items[2].fileName
    /\ fetchLog[Len(fetchLog) - 1].op = "write"
    /\ MadeDirs(fetchLog, 0) = {}

(* -------------------- vocabulary of the network claims ----------------- *)

\* The base stations of the scenarios built so far.
Stations == {propagation_list[i].baseStation : i \in 1..Len(propagation_list)}

\* The row create_propagation_request_row is about to read.
AtRow(row) == pc = "rows" /\ listIdx <= Len(network_list) /\ row = network_list[listIdx]

\* The row sets some but not all of the five advanced SINR fields.
PartialAdvanced(row) ==
    /\ mandatory_advanced_sinr_fields \cap row.keys # {}
    /\ ~(mandatory_advanced_sinr_fields \subseteq row.keys)

\* The station carries all five advanced attributes or none of them.
AllOrNoneCarried(station) ==
    \/ AdvancedSinrAttributes \subseteq station.attributes
    \/ AdvancedSinrAttributes \cap station.attributes = {}

\* C26 as stated: in a SINR computation, 4G or 5G, a row that sets some but
\* not all of the five advanced fields ends the run and gives no scenario,
\* and every base station built carries all five attributes or none.
C26_AllOrNone ==
    /\ [](\A station \in Stations : AllOrNoneCarried(station))
    /\ [][\A row \in {network_list[k] : k \in 1..Len(network_list)} :
              AtRow(row) /\ computation_type \in {SINR4G, SINR5G} /\ PartialAdvanced(row)
              => pc' = "exit" /\ propagation_list' = propagation_list]_vars

\* C26, amended: the rule is applied in a 4G computation only.  There a row
\* that sets some but not all of the five fields ends the run and gives no
\* scenario, and a row that sets the five of them gives a base station that
\* carries the five attributes; in any other computation the five fields are
\* not read and no base station carries any of them.
C26_AllOrNone4G ==
    /\ [](\A station \in Stations :
             /\ AllOrNoneCarried(station)
             /\ computation_type # SINR4G => AdvancedSinrAttributes \cap station.attributes = {})
    /\ [][\A row \in {network_list[k] : k \in 1..Len(network_list)} :
              AtRow(row) /\ computation_type = SINR4G
              => /\ PartialAdvanced(row)
                    => pc' = "exit" /\ propagation_list' = propagation_list
                 /\ mandatory_advanced_sinr_fields \subseteq row.keys /\ pc' # "exit"
                    => AdvancedSinrAttributes
                          \subseteq propagation_list'[Len(propagation_list')]
                                       .baseStation.attributes]_vars

\* A 4G computation has ended on a row whose only fault is to set one of the
\* five fields without the others.
C26_Witness ==
    /\ entry = "create_propagation_request"
    /\ computation_type = SINR4G
    /\ pc = "exit"
    /\ PartialAdvanced(network_list[1])
    /\ TECHNO \in network_list[1].keys
    /\ propagation_list = <<>>

\* A 5G computation has built a base station from a row that sets one of the
\* five fields without the others.
C26_PartialRowAccepted5G ==
    /\ entry = "create_propagation_request"
    /\ computation_type = SINR5G
    /\ pc = "returned"
    /\ PartialAdvanced(network_list[1])
    /\ Len(propagation_list) = 1

\* The row names a repeated base station and has techno 5G.
Repeater5G(row) == "repeatBaseStationNetworkId" \in row.keys /\ TECHNO \in row.keys
                   /\ row.techno = SINR5G

C27_RepeaterBuilt ==
    /\ entry = "create_propagation_request"
    /\ computation_type = SINR5G
    /\ pc = "returned"
    /\ Repeater5G(network_list[1])
    /\ Len(propagation_list) = 1
    /\ propagation_list[1].baseStation.techno = SINR5G

\* A file with a column for the repeated base station is refused by
\* create_network_list, whatever its rows.
C27_UnknownColumnRefused ==
    [][pc = "create_network_list" /\ "repeatBaseStationNetworkId" \in csv_file.headers
       => pc' = "exit"]_vars

LongLat == {TRANSMITTER_LONGITUDE, TRANSMITTER_LATITUDE}

\* Both coordinate pairs are among the headers, or neither pair is complete.
BothOrNeither(headers) ==
    \/ EastingNorthing \subseteq headers /\ LongLat \subseteq headers
    \/ ~(EastingNorthing \subseteq headers) /\ ~(LongLat \subseteq headers)

\* C28: a network file whose headers have both coordinate pairs, or neither
\* pair complete, ends the run in create_network_list (with an error message;
\* with an exception when the file has no header line at all), before any
\* base station is built.  Every base station built comes from a row with one
\* mode: epsgCode 4326 and the longitude and latitude of the row when the row
\* has them, no epsgCode and the easting and northing of the row otherwise;
\* the rows of a file that was accepted have cells of one pair only.
C28_ExclusiveCoordinateMode ==
    /\ [][pc = "create_network_list" /\ BothOrNeither(csv_file.headers)
          => /\ pc' = IF csv_file.fieldnames THEN "exit" ELSE "crash"
             /\ network_list' = <<>>
             /\ propagation_list' = <<>>]_vars
    /\ [](\A i \in 1..Len(propagation_list) :
             LET station == propagation_list[i].baseStation
                 row == network_list[i]
             IN  /\ IF LongLat \subseteq row.keys
                    THEN /\ station.epsgCode = 4326
                         /\ station.x = row.longitude /\ station.y = row.latitude
                    ELSE /\ station.epsgCode = None
                         /\ EastingNorthing \subseteq row.keys
                         /\ station.x = row.x /\ station.y = row.y
                 /\ entry = "create_network_list"
                    => \/ row.keys \cap CoordinateHeaders = LongLat
                       \/ row.keys \cap CoordinateHeaders = EastingNorthing)

\* A file with the four coordinate headers and two complete rows has been
\* refused, with no base station built.
C28_Witness ==
    /\ entry = "create_network_list"
    /\ pc = "exit"
    /\ CoordinateHeaders \subseteq csv_file.headers
    /\ Len(csv_file.rows) = 2
    /\ \A k \in 1..2 : csv_file.rows[k].filled = csv_file.headers
    /\ propagation_list = <<>>

\* A file with longitude and latitude has given two base stations with
\* epsgCode 4326.
C28_LongLatBuilt ==
    /\ entry = "create_network_list"
    /\ pc = "returned"
    /\ Len(propagation_list) = 2
    /\ \A i \in 1..2 : propagation_list[i].baseStation.epsgCode = 4326

\* A file with easting and northing has given two base stations without
\* epsgCode.
C28_EastingNorthingBuilt ==
    /\ entry = "create_network_list"
    /\ pc = "returned"
    /\ Len(propagation_list) = 2
    /\ \A i \in 1..2 : propagation_list[i].baseStation.epsgCode = None

\* The scenarios built so far, each with the row it was built from: every
\* row that is accepted gives a scenario of its own.
Built == 1..Len(propagation_list)

BoxOf(i) == propagation_list[i].userEquipments[1].coordinates

BoxOrdered(box) == box.xmin < box.xmax /\ box.ymin < box.ymax

\* The transmitter coordinates fill_user_equipment reads in the row.
TxX(row) == IF LongLat \subseteq row.keys THEN row.longitude ELSE row.x
TxY(row) == IF LongLat \subseteq row.keys THEN row.latitude ELSE row.y

\* C29: the box of every AREA equipment has xmin < xmax and ymin < ymax, for
\* the positive radii of the rows, with and without shiftGridCenter, in planar
\* and in geographic coordinates; computed again from the same row and
\* settings it has the same bounds.
C29_BoxOrderedAndStable ==
    \A i \in Built :
        /\ BoxOrdered(BoxOf(i))
        /\ BoxOf(i) = fill_user_equipment(network_list[i], prediction_type,
                                          shiftGridCenter).coordinates

\* The part of C29 that holds: the box is the same when computed again, and
\* in planar coordinates its bounds are ordered.
C29_PlanarBoxOrdered ==
    \A i \in Built :
        /\ BoxOf(i) = fill_user_equipment(network_list[i], prediction_type,
                                          shiftGridCenter).coordinates
        /\ BoxOf(i).epsgCode = None => BoxOrdered(BoxOf(i))

\* A transmitter at latitude 89.5 with a radius of 100 km has a box whose
\* xmax is below its xmin, and below the transmitter.
C29_BoxInverted ==
    /\ entry = "create_propagation_request"
    /\ pc = "returned"
    /\ Len(propagation_list) = 1
    /\ network_list[1].latitude = 895 /\ network_list[1].radius = 1000000
    /\ BoxOf(1).epsgCode = 4326
    /\ BoxOf(1).xmax < BoxOf(1).xmin
    /\ BoxOf(1).xmax < network_list[1].longitude
    /\ BoxOf(1).ymin < BoxOf(1).ymax

\* The center is c on the axis whose bounds are lo and hi.
CenterIs(lo, hi, c) == lo + hi = 2 * c

\* What C30 says of one axis: with shiftGridCenter the center is resolution *
\* floor((tx + resolution / 2) / resolution), a multiple of the resolution at
\* most resolution / 2 away from tx; without it the center is tx.
CenterAsClaimed(lo, hi, tx, resolution, shift) ==
    IF shift
    THEN LET c == resolution * ((2 * tx + resolution) \div (2 * resolution))
         IN  /\ CenterIs(lo, hi, c)
             /\ c % resolution = 0
             /\ 2 * (c - tx) <= resolution /\ 2 * (tx - c) <= resolution
    ELSE CenterIs(lo, hi, tx)

\* C30 as stated: the center of every box is as claimed on each axis.
C30_BoxCenter ==
    \A i \in Built :
        LET box == BoxOf(i)
            row == network_list[i]
        IN  /\ CenterAsClaimed(box.xmin, box.xmax, TxX(row), box.resolution, shiftGridCenter)
            /\ CenterAsClaimed(box.ymin, box.ymax, TxY(row), box.resolution, shiftGridCenter)

\* C30, amended: the center is as claimed on the y axis in both coordinate
\* modes, and on the x axis in planar coordinates.
C30_BoxCenterPlanarOrLatitude ==
    \A i \in Built :
        LET box == BoxOf(i)
            row == network_list[i]
        IN  /\ CenterAsClaimed(box.ymin, box.ymax, TxY(row), box.resolution, shiftGridCenter)
            /\ box.epsgCode = None
               => CenterAsClaimed(box.xmin, box.xmax, TxX(row), box.resolution,
                                  shiftGridCenter)

\* With shiftGridCenter a transmitter at easting 0.7 and a resolution of 0.4
\* has a box centered on 0.8.
C30_Witness ==
    /\ entry = "create_propagation_request"
    /\ pc = "returned"
    /\ shiftGridCenter
    /\ Len(propagation_list) = 1
    /\ network_list[1].x = 7 /\ network_list[1].resolution = 4
    /\ BoxOf(1).epsgCode = None
    /\ CenterIs(BoxOf(1).xmin, BoxOf(1).xmax, 8)

\* Without shiftGridCenter a transmitter at longitude 2.5, latitude 45 with a
\* radius of 1000 km has a box whose center is not at longitude 2.5.
C30_LongitudeOffCenter ==
    /\ entry = "create_propagation_request"
    /\ pc = "returned"
    /\ ~shiftGridCenter
    /\ Len(propagation_list) = 1
    /\ network_list[1].latitude = 450 /\ network_list[1].radius = 10000000
    /\ BoxOf(1).epsgCode = 4326
    /\ BoxOrdered(BoxOf(1))
    /\ ~CenterIs(BoxOf(1).xmin, BoxOf(1).xmax, network_list[1].longitude)
    /\ CenterIs(BoxOf(1).ymin, BoxOf(1).ymax, network_list[1].latitude)

(* ------------------- vocabulary of the last claims --------------------- *)

\* The requests put on the wire by the call_request in progress.
Wire == {crSent[i] : i \in 1..Len(crSent)}

\* The url ends with /public.
HasPublicSuffix(url) ==
    url \in {"mapdata/public", "simulations/public", "antennas/public",
             "propagationmodels/public", "status/public", "results/public",
             "mapdata/uuid/public"}

PublicJob == auth = "required" /\ publicPrediction

\* C31 as stated: every request sent has the /public suffix exactly when
\* authentication is required and the job is marked publicPrediction.
C31_PublicSuffixOnEveryRequest ==
    \A req \in Wire : HasPublicSuffix(req.url) <=> PublicJob

\* C31, amended: every POST that creates a resource has the suffix exactly
\* when authentication is required and the job is marked publicPrediction; a
\* GET never has it.
C31_PublicSuffixOnCreation ==
    \A req \in Wire :
        /\ req.method = "POST" => (HasPublicSuffix(req.url) <=> PublicJob)
        /\ req.method = "GET" => ~HasPublicSuffix(req.url)

\* The simulation request of a public job has gone to simulations/public.
C31_Witness ==
    /\ PublicJob
    /\ entry = "simulation"
    /\ \E req \in Wire : req.method = "POST" /\ req.url = "simulations/public"

\* The status of the simulation of a public job has been asked for at the
\* url without suffix.
C31_PublicJobPlainStatus ==
    /\ PublicJob
    /\ \E req \in Wire : req.method = "GET" /\ req.url = "status"

\* The row has a terrain altitude that is not the empty string.
HasTerrainAltitude(row) == TERRAIN_ALTITUDE \in row.keys /\ row.terrainAltitude # <<>>

\* C33: the base station of a row with a non-empty terrain altitude has z =
\* transmitter height + terrain altitude and zmeaning ZMEANING_ALTITUDE; the
\* base station of any other row has z = transmitter height and zmeaning
\* ZMEANING_GROUND.
C33_TerrainAltitude ==
    \A i \in Built :
        LET station == propagation_list[i].baseStation
            row == network_list[i]
        IN  IF HasTerrainAltitude(row)
            THEN /\ station.z = row.height + row.terrainAltitude[1]
                 /\ station.zmeaning = "ZMEANING_ALTITUDE"
            ELSE /\ station.z = row.height
                 /\ station.zmeaning = "ZMEANING_GROUND"

\* A row of a file with height 0.1 and terrain altitude 0.3 has given a base
\* station at z 0.4 with ZMEANING_ALTITUDE.
C33_Witness ==
    /\ entry = "create_network_list"
    /\ pc = "returned"
    /\ HasTerrainAltitude(network_list[1])
    /\ propagation_list[1].baseStation.z = 4
    /\ propagation_list[1].baseStation.zmeaning = "ZMEANING_ALTITUDE"

\* A row whose terrain altitude is the empty string has given a base station
\* at the transmitter height with ZMEANING_GROUND.
C33_EmptyCellIsGround ==
    /\ entry = "create_propagation_request"
    /\ pc = "returned"
    /\ TERRAIN_ALTITUDE \in network_list[1].keys
    /\ network_list[1].terrainAltitude = <<>>
    /\ propagation_list[1].baseStation.zmeaning = "ZMEANING_GROUND"

\* create_mapdatas is about to read the JSON answer to the creation POST.
AtMapdataResult ==
    pc = "mapdataPostWait" /\ crPc = "return" /\ crRes.body.kind # "nojson"

\* The result of the POST has a status field that is not 201.
SignalsFailure(resultPost) == resultPost.status # None /\ resultPost.status # HTTP_CREATED

\* The entry at listIdx is accepted with the identifier of the POST result.
MapdataAccepted ==
    /\ pc' \notin {"exit", "crash"}
    /\ mapdata_dict' = SetItem(mapdata_dict, EntryName(resource_list[listIdx]), crRes.body.uuid)
    /\ listIdx' = listIdx + 1

\* C34: when the result of the POST has a status other than 201, layers of
\* the GET answer that differ from the payload's end the run, and layers that
\* are equal or absent end it unless the status is 406; when it has no status
\* or status 201 the layers of the GET answer do not count and the entry is
\* accepted with the identifier of the POST result.  (A POST result that is
\* accepted must have an identifier: the run ends with an exception without.)
C34_LayersComparedOnFailureOnly ==
    [][AtMapdataResult
       => IF SignalsFailure(crRes.body)
          THEN /\ result_get.layers = "other" => pc' = "exit" /\ mapdata_dict' = mapdata_dict
               /\ result_get.layers # "other" /\ crRes.body.status # HTTP_NOT_ACCEPTABLE
                  => pc' = "exit" /\ mapdata_dict' = mapdata_dict
               /\ result_get.layers # "other" /\ crRes.body.status = HTTP_NOT_ACCEPTABLE
                  /\ crRes.body.uuid # "none"
                  => MapdataAccepted
          ELSE crRes.body.uuid # "none" => MapdataAccepted]_vars

\* A POST result without status is about to be accepted although the layers
\* of the GET answer differ from the payload's.
DiffersButCreated ==
    /\ AtMapdataResult
    /\ result_get.layers = "other"
    /\ ~SignalsFailure(crRes.body)
    /\ crRes.body.uuid = "server"

\* The first map data has been accepted with the identifier of a POST result
\* of status 201, and the loop has gone on.
C34_Witness ==
    /\ entry = "mapdatas"
    /\ listIdx = 2
    /\ mapdata_dict = {<<EntryName(resource_list[1]), "server">>}
    /\ lastCreation.status = HTTP_CREATED
    /\ pc \in {"mapdatas", "returned"}

\* The run has ended on an answer of status 406 with an identifier: the
\* layers differed.
C34_DifferingLayersFatal ==
    /\ entry = "mapdatas"
    /\ pc = "exit"
    /\ lastCreation.status = HTTP_NOT_ACCEPTABLE
    /\ lastCreation.uuid = "server"

\* The prediction-level fetch is about to ask for the predictions, after a
\* simulation document with these steps.
AtPredictionsQuery(steps) ==
    /\ entry = "download_simulation_predictions_results"
    /\ pc = "predictions"
    /\ steps = results.items

\* The error of a simulation without prediction group has been logged.
NoGroupLogged == \E i \in 1..Len(fetchLog) : fetchLog[i].op = "error"

\* C35: the query of the predictions carries the prediction group of the
\* first step of the simulation document that has one, whatever later steps
\* carry; when no step has one the error is logged, the run is not ended and
\* the query is still made (without group).
C35_FirstStepWins ==
    /\ [][\A steps \in StepLists :
             AtPredictionsQuery(steps)
             => /\ pc' = "predictionsWait"
                /\ crReq'.url = "predictions"
                /\ IF \E i \in 1..Len(steps) : steps[i].predictionGroupUuid # "none"
                   THEN \E i \in 1..Len(steps) :
                           /\ steps[i].predictionGroupUuid # "none"
                           /\ \A j \in 1..(i - 1) : steps[j].predictionGroupUuid = "none"
                           /\ crReq'.uuid = steps[i].predictionGroupUuid
                           /\ ~NoGroupLogged
                   ELSE crReq'.uuid = "none" /\ NoGroupLogged]_vars
    /\ [][pc = "simulationWait" /\ crPc = "return" /\ crRes.code = HTTP_OK
          /\ crRes.body.kind = "object"
          => pc' = "predictions"]_vars

\* The predictions of group g1 have been asked for after a simulation
\* document whose steps carry g1, then g2.
C35_Witness ==
    /\ entry = "download_simulation_predictions_results"
    /\ pc = "predictionsWait"
    /\ Len(results.items) = 2
    /\ results.items[2].predictionGroupUuid = "g2"
    /\ crReq.uuid = "g1"
    /\ Len(crSent) > 0

\* The predictions have been asked for after a simulation document without
\* prediction group, the error logged.
C35_NoGroupStillQueried ==
    /\ entry = "download_simulation_predictions_results"
    /\ pc = "predictionsWait"
    /\ NoGroupLogged
    /\ Len(crSent) > 0
    /\ crSent[1].url = "predictions" /\ crSent[1].uuid = "none"

\* The states for which the handler of the poller has a branch.
HandledStates(kind) ==
    IF kind = "postprocessing"
    THEN {"WAITING", "ERROR", "DONE", "CANCELED"}
    ELSE {"WAITING", "ERROR", "DONE", "DONE_WITH_ERROR", "CANCELED"}

\* The poller is about to handle a status response.
AtStatusResponse ==
    /\ entry \in Pollers
    /\ pc = "pollWait" /\ crPc = "return"
    /\ crRes.code # HTTP_NOT_FOUND
    /\ crRes.body.kind = "status"

\* C36: in each poller a response that is not a 404 and whose state is none
\* of those the handler has a branch for is handled as WAITING: the poller is
\* back at the top of its loop, it neither returns nor ends the run, and the
\* retry flag is as before.
C36_UnknownStateKeepsPolling ==
    [][AtStatusResponse
       => /\ crRes.body.state \notin HandledStates(entry)
             => pc' = "poll" /\ retry' = retry
          /\ crRes.body.state = "WAITING"
             => pc' = "poll" /\ retry' = retry]_vars

\* The post-processing poller is back at the top of its loop after
\* DONE_WITH_ERROR, a state its handler has no branch for, with its retry.
C36_Witness ==
    /\ entry = "postprocessing"
    /\ pc = "poll"
    /\ retry
    /\ Len(observed) = 1
    /\ observed[1] = [notFound |-> FALSE, state |-> "DONE_WITH_ERROR"]

\* The simulation poller is back at the top of its loop after a state that is
\* not a job state.
C36_OtherStateSimulation ==
    /\ entry = "simulation"
    /\ pc = "poll"
    /\ Len(observed) = 1
    /\ observed[1] = [notFound |-> FALSE, state |-> "OTHER"]

\* The prediction-group poller has lost its retry to an ERROR and is back at
\* the top of its loop after a state that is not a job state.
C36_OtherStatePredictionGroup ==
    /\ entry = "predictiongroup"
    /\ pc = "poll"
    /\ ~retry
    /\ Len(observed) = 2
    /\ observed[2] = [notFound |-> FALSE, state |-> "OTHER"]

\* call_request has received a 403 on its first attempt and is about to call
\* refresh_token.
AtRefresh == crPc = "refresh" /\ pc \notin Terminal

\* The run ended inside refresh_token.
EndedInRefresh == pc = "exit" /\ crPc = "refresh"

\* C37: after a 403 on the first attempt, refresh_token either completes
\* (which takes a refresh token) or ends the run: without a refresh token,
\* as in every run without required authentication, it always ends it; a run
\* ended there has sent the request once, has returned no response to the
\* caller and has the token pair it had.
C37_FailedRefreshIsFatal ==
    /\ [](auth # "required" => REFRESH_TOKEN = None /\ ACCESS_TOKEN = None)
    /\ [][AtRefresh
          => /\ REFRESH_TOKEN = None => pc' = "exit"
             /\ \/ /\ REFRESH_TOKEN # None
                   /\ tokenIssued' = tokenIssued + 1
                   /\ pc' = pc
                \/ /\ pc' = "exit"
                   /\ crPc' = "refresh"
                   /\ UNCHANGED <<tokenVars, crSent, crGot, crRes>>]_vars
    /\ [](EndedInRefresh
          => /\ Len(crSent) = 1
             /\ crGot[1].code = HTTP_FORBIDDEN
             /\ crRes = NoResponse)

\* A run without authentication has ended on a 403: no refresh token.
C37_Witness ==
    /\ auth = "none"
    /\ EndedInRefresh
    /\ crRefreshes = 1
    /\ REFRESH_TOKEN = None

\* A run with required authentication has ended on a 403 because the token
\* endpoint refused the refresh: the token pair is the one it had.
C37_RefreshRefused ==
    /\ auth = "required"
    /\ EndedInRefresh
    /\ REFRESH_TOKEN # None
    /\ ACCESS_TOKEN = REFRESH_TOKEN

\* A step of get_access_token that asks the token endpoint with the password:
\* a call_request that finds no access token.
PasswordGrant ==
    /\ crPc = "start" /\ AuthRequired /\ ACCESS_TOKEN = None
    /\ ACCESS_TOKEN' # None \/ pc' = "exit"

\* C38: the token is asked for with the password only by the first
\* authenticated call, before any request was sent and any token issued, and
\* that step sets the access token or ends the run; an access token that is
\* set is never unset; every later answer of the token endpoint is the one to
\* a refresh, made by a call_request whose last response is a 403.  So the
\* password grant is issued at most once.
C38_PasswordGrantOnce ==
    /\ [][PasswordGrant
          => /\ tokenIssued = 0
             /\ requested = {} /\ crSent = <<>>
             /\ crRefreshes = 0]_vars
    /\ [][ACCESS_TOKEN # None => ACCESS_TOKEN' # None]_vars
    /\ [][tokenIssued' # tokenIssued /\ ACCESS_TOKEN # None
          => /\ crPc = "refresh"
             /\ crGot[Len(crGot)].code = HTTP_FORBIDDEN
             /\ crRetry = 0]_vars
    /\ [](ACCESS_TOKEN = None => tokenIssued = 0)

\* The second token of the run is in use: it came from a refresh.
C38_Witness ==
    /\ auth = "required"
    /\ tokenIssued = 2
    /\ ACCESS_TOKEN = 2
    /\ crPc = "return"
    /\ Len(crSent) = 2
    /\ crSent[1].token = 1 /\ crSent[2].token = 2

\* The answer under delivery is a JSON body with an empty manifest and a
\* status other than 400 and 404.
EmptyManifestAnswer ==
    /\ crPc = "return"
    /\ crRes.body.kind # "nojson"
    /\ crRes.body.len = 0
    /\ crRes.code \notin {HTTP_NOT_FOUND, HTTP_BAD_REQUEST}

\* The three answers to the queries for manifest k were empty manifests with
\* a status other than 400 and 404.
Exhausted(k) ==
    /\ Cardinality(ManifestEvents(fetchLog, k)) = 3
    /\ \A i \in ManifestEvents(fetchLog, k) :
          fetchLog[i].len = 0 /\ fetchLog[i].code \notin {HTTP_NOT_FOUND, HTTP_BAD_REQUEST}

\* C39: a third empty manifest (status other than 400 and 404) is not an
\* error: the fetch goes on to make its directory, and from there, with no
\* artifact to download, to the next prediction or to its return; no
\* download is ever asked for a manifest that was exhausted.
C39_ExhaustionIsNotAnError ==
    /\ [][(pc = "manifestWait" /\ EmptyManifestAnswer /\ manifestLeft = 1)
            => pc' = "create_directory"]_vars
    /\ [][(pc = "predictionManifestWait" /\ EmptyManifestAnswer /\ manifestLeft = 1)
            => pc' = "predictionDirectory"]_vars
    /\ [][(pc = "create_directory" /\ Exhausted(0)) => pc' = "returned"]_vars
    /\ [][(pc = "predictionDirectory" /\ Exhausted(predictionIdx))
            => /\ pc' = NextPrediction
               /\ pc' \in {"prediction", "returned"}]_vars
    /\ [](\A k \in Manifests : Exhausted(k) => DownloadEvents(fetchLog, k) = {})

\* C39 witness: the fetch of the simulation results has returned after three
\* empty manifests answered 200, having made its directory and asked for no
\* download.
C39_Witness ==
    /\ pc = "returned"
    /\ Exhausted(0)
    /\ \A i \in ManifestEvents(fetchLog, 0) : fetchLog[i].code = HTTP_OK
    /\ fetchLog[Len(fetchLog)].op = "create_directory"
    /\ DownloadEvents(fetchLog, 0) = {}

\* C39 witness: the fetch of the predictions goes on to its second prediction
\* after the manifest of the first was exhausted.
C39_WitnessNextPrediction ==
    /\ pc = "prediction"
    /\ predictionIdx = 2
    /\ Exhausted(1)
    /\ DownloadEvents(fetchLog, 1) = {}

\* The creation request of the simulation has been sent.
Submitted == get_resource_uri("simulations") \in requested

\* The endpoints a run of the main sequence has sent a request to when the
\* map data, the antenna, the session and the propagation model of its
\* settings have been dealt with.
ResourcesRequested ==
    /\ {get_resource_uri("mapdata"), "mapdata/uuid"} \cap requested # {}
    /\ {get_resource_uri("antennas"), get_resource_uri("sessions"),
        get_resource_uri("propagationmodels")} \subseteq requested

\* C32: the creation request of the simulation is sent only by
\* create_simulation_request, called last, after every row of the network
\* list was assembled and after the map data, antenna, session and model
\* requests were made; the sequence moves from a function to the next only
\* when the function has returned, and nothing follows a sys.exit or an
\* uncaught exception.
C32_NoPartialSubmission ==
    /\ [](Submitted => /\ entry = "simulation"
                       /\ network_list # <<>>
                       /\ listIdx > Len(network_list)
                       /\ Len(propagation_list) >= 1
                       /\ ResourcesRequested)
    /\ [][entry' # entry => /\ pc = "returned"
                            /\ StageRank(entry') = StageRank(entry) + 1]_vars
    /\ [][~Fatal]_vars

\* C32 witness: the submission was answered 201 at the end of a run that
\* went through every function of the sequence.
C32_Witness ==
    /\ entry = "simulation"
    /\ pc = "poll"
    /\ Submitted
    /\ ResourcesRequested
    /\ mapdata_dict # {} /\ antenna_dict # {} /\ model_dict # {}

\* C32 witness: a run has ended in create_model, after the session was
\* posted, without a submission.
C32_AbortedBeforeSubmission ==
    /\ entry = "models"
    /\ pc = "exit"
    /\ get_resource_uri("sessions") \in requested
    /\ ~Submitted

\* C40: a simulation request that was sent holds a propagation request, and
\* holds a post-processing request exactly when the settings have a network
\* section and the prediction type is not POINT.
C40_SubmissionContent ==
    Submitted
       => /\ simulation_request.propagationRequest
          /\ simulation_request.postprocessingRequest
                <=> (network_section # "absent"
                       /\ get_prediction_type(prediction_type) # "POINT")

\* C40 witness: a request with a post-processing request was sent, the
\* settings having a network section and no prediction type.
C40_Witness ==
    /\ Submitted
    /\ network_section = "complete"
    /\ prediction_type = "none"
    /\ simulation_request.propagationRequest
    /\ simulation_request.postprocessingRequest

\* C40 witness: a request without a post-processing request was sent, the
\* settings having no network section.
C40_WitnessPropagationOnly ==
    /\ Submitted
    /\ network_section = "absent"
    /\ simulation_request.propagationRequest
    /\ ~simulation_request.postprocessingRequest


====
